---- MODULE Spec2Model ----
(***************************************************************************)
(* Model of the ingredient-to-concern tagging pipeline of the skincare     *)
(* recommendation repository: normalize_ingredient,                        *)
(* find_matching_concerns_with_ranking and add_concern_tags_to_products    *)
(* (src/add_concern_tags.py) over the concern taxonomy of                  *)
(* src/skincare_ingredients.py.                                            *)
(*                                                                         *)
(* A Python str is modelled as a sequence of one-character strings, so     *)
(* that the regular expressions of normalize_ingredient act on characters. *)
(***************************************************************************)
EXTENDS Integers, Sequences, FiniteSets, TLC

VARIABLES
  pc,                 \* position of the modelled call
  ingredient,         \* normalize_ingredient: the argument
  normalized,         \* normalize_ingredient: the value returned
  pieces,             \* number of pieces the argument was composed of
  ingredients,        \* find_matching_concerns_with_ranking: the ingredient string
  tokens,             \* number of comma-separated tokens it was composed of
  skincare_ingredients, \* the taxonomy passed in
  ranked_ingredients, \* the rank table passed in (or loaded)
  match_events,       \* the (concern ingredient, product key) pairs at which the
                      \* matching loop took a match branch and broke
  concern_scores,     \* the dict concern -> best_score, in insertion order
  matching_concerns,  \* the list returned
  products,           \* add_concern_tags_to_products: data['products'];
                      \* the engine's self.products; the extraction's products
  processed,          \* the number of products the loop has processed
  raised,             \* the exception the modelled call raised, "" if none
  product,            \* calculate_product_score: the product dict
  user_concerns,      \* the dict concern -> percentage of the user
  score,              \* calculate_product_score: the value returned
  min_score_threshold, \* filter_products_by_concerns: the threshold
  scored_products,    \* filter_products_by_concerns: the list returned
  num_recommendations, \* get_quick_recommendations: the count asked for
  response,           \* the outcome of the API call / the text parsed
  recommendations,    \* the value the engine's call returned
  unique_ingredients, \* extract_unique_ingredients: the set of kept tokens
  first_two_words_seen, \* extract_unique_ingredients: the prefixes seen
  rank_file,          \* the lines of unique_ingredients_list.txt
  prompt,             \* create_minimal_prompt: the product_list of the prompt
  url,                \* make_request: the URL asked for
  attempt,            \* make_request: the GET attempts made so far
  outcomes,           \* make_request: the server's outcome at each attempt
  slept,              \* make_request: the seconds slept so far
  request_result,     \* make_request: the value returned
  progress_file,      \* scraping_progress.json: whether it exists, its scraped_urls
  collection_pages,   \* the site: the product containers of each collection page
  collection_urls,    \* scrape_batched: the collection URLs still to be visited
  scraped_urls,       \* the scraper's self.scraped_urls
  all_products,       \* scrape_batched: the products discovered in this run
  batch_products,     \* scrape_batched: the products still to be processed
  scraped_products,   \* scrape_batched: the list it returns
  visits,             \* the product pages fetched, per run, in order
  runs                \* the scraper runs started so far

normVars == <<ingredient, normalized, pieces>>
tagVars == <<ingredients, tokens, skincare_ingredients, ranked_ingredients,
             match_events, concern_scores, matching_concerns>>
catVars == <<products, processed>>
engVars == <<product, user_concerns, score, min_score_threshold, scored_products,
             num_recommendations, response, recommendations>>
extVars == <<unique_ingredients, first_two_words_seen, rank_file>>
reqVars == <<url, attempt, outcomes, slept, request_result>>
runVars == <<progress_file, collection_pages, collection_urls, scraped_urls, all_products,
             batch_products, scraped_products, visits, runs>>
scrVars == <<reqVars, runVars>>
vars == <<pc, raised, normVars, tagVars, catVars, engVars, extVars, prompt, scrVars>>

\* The engine's variables while no engine call is modelled.
IdleEngine ==
  /\ product = <<>>
  /\ user_concerns = <<>>
  /\ score = 0
  /\ min_score_threshold = 0
  /\ scored_products = <<>>
  /\ num_recommendations = 0
  /\ response = <<>>
  /\ recommendations = <<>>
  /\ prompt = <<>>

\* The extraction pass's variables while no extraction is modelled.
IdleExtract ==
  /\ unique_ingredients = {}
  /\ first_two_words_seen = {}
  /\ rank_file = <<>>

\* The scraper's variables while no request is modelled.
IdleRequest ==
  /\ url = ""
  /\ attempt = 0
  /\ outcomes = <<>>
  /\ slept = 0
  /\ request_result = [kind |-> "unset"]

\* The scraper's variables while no run is modelled.
IdleRun ==
  /\ progress_file = [exists |-> FALSE]
  /\ collection_pages = <<>>
  /\ collection_urls = <<>>
  /\ scraped_urls = {}
  /\ all_products = <<>>
  /\ batch_products = <<>>
  /\ scraped_products = <<>>
  /\ visits = <<>>
  /\ runs = 0

IdleScraper == IdleRequest /\ IdleRun

-----------------------------------------------------------------------------
(* Characters and the str methods the code uses.                            *)

\* str.strip() and the regex class \s: the whitespace characters.
IsSpace(c) == c \in {" ", "\t", "\n"}

\* The upper-case letters and their lower-case forms.
UpperToLower ==
  [A |-> "a", B |-> "b", C |-> "c", D |-> "d", E |-> "e", F |-> "f", G |-> "g",
   H |-> "h", I |-> "i", J |-> "j", K |-> "k", L |-> "l", M |-> "m", N |-> "n",
   O |-> "o", P |-> "p", Q |-> "q", R |-> "r", S |-> "s", T |-> "t", U |-> "u",
   V |-> "v", W |-> "w", X |-> "x", Y |-> "y", Z |-> "z"]

\* str.lower() on one character.
LowerChar(c) == IF c \in DOMAIN UpperToLower THEN UpperToLower[c] ELSE c

\* A list built by a comprehension, as a sequence.
AsList(f) == <<>> \o f

\* A str passed on as it is.
LowerSkipped(s) == s

\* str.lower()
Lower(s) == AsList( [i \in 1..Len(s) |-> LowerChar(s[i])])

\* The slice s[a-1:b] of Python: the characters at (1-based) positions a..b,
\* empty when a > b.
Slice(s, a, b) == SubSeq(s, a, b)

\* The first index from i on that holds no whitespace (Len(s) + 1 if none).
RECURSIVE FirstNonSpace(_, _)
FirstNonSpace(s, i) ==
  IF i > Len(s) \/ ~IsSpace(s[i]) THEN i ELSE FirstNonSpace(s, i + 1)

\* The last index up to i that holds no whitespace (0 if none).
RECURSIVE LastNonSpace(_, _)
LastNonSpace(s, i) ==
  IF i < 1 \/ ~IsSpace(s[i]) THEN i ELSE LastNonSpace(s, i - 1)

\* str.strip(): leading and trailing whitespace removed.
Strip(s) == Slice(s, FirstNonSpace(s, 1), LastNonSpace(s, Len(s)))

\* re.sub(r'\s+', ' ', s): every maximal whitespace run becomes one space.
RECURSIVE CollapseFrom(_, _)
CollapseFrom(s, i) ==
  IF i > Len(s) THEN <<>>
  ELSE IF IsSpace(s[i])
       THEN IF i > 1 /\ IsSpace(s[i - 1])
            THEN CollapseFrom(s, i + 1)
            ELSE <<" ">> \o CollapseFrom(s, i + 1)
       ELSE <<s[i]>> \o CollapseFrom(s, i + 1)

CollapseSpaces(s) == CollapseFrom(s, 1)

StartsWith(s, w) == Len(w) <= Len(s) /\ \A i \in 1..Len(w) : s[i] = w[i]
EndsWith(s, w) == Len(w) <= Len(s) /\ \A i \in 1..Len(w) : s[Len(s) - Len(w) + i] = w[i]

\* The alternation (extract|oil|powder|acid|filtrate|seed|fruit|leaf|root|flower).
GenericWords ==
  <<
    <<"e", "x", "t", "r", "a", "c", "t">>,
    <<"o", "i", "l">>,
    <<"p", "o", "w", "d", "e", "r">>,
    <<"a", "c", "i", "d">>,
    <<"f", "i", "l", "t", "r", "a", "t", "e">>,
    <<"s", "e", "e", "d">>,
    <<"f", "r", "u", "i", "t">>,
    <<"l", "e", "a", "f">>,
    <<"r", "o", "o", "t">>,
    <<"f", "l", "o", "w", "e", "r">>
  >>

\* re.sub(r'^(extract|oil|...)\s+', '', s): one generic word at the start, with
\* the whitespace run that follows it, is removed; no word is a prefix of
\* another, so at most one alternative matches.
StripLeadingGeneric(s) ==
  LET hits == {k \in 1..Len(GenericWords) :
                 /\ StartsWith(s, GenericWords[k])
                 /\ Len(s) > Len(GenericWords[k])
                 /\ IsSpace(s[Len(GenericWords[k]) + 1])}
  IN  IF hits = {} THEN s
      ELSE LET w == GenericWords[CHOOSE k \in hits : TRUE]
           IN  Slice(s, FirstNonSpace(s, Len(w) + 1), Len(s))

\* re.sub(r'\s+(extract|oil|...)$', '', s): one generic word at the end, with
\* the whitespace run before it, is removed (the leftmost match starts at the
\* beginning of that run).
StripTrailingGeneric(s) ==
  LET hits == {k \in 1..Len(GenericWords) :
                 /\ EndsWith(s, GenericWords[k])
                 /\ Len(s) > Len(GenericWords[k])
                 /\ IsSpace(s[Len(s) - Len(GenericWords[k])])}
  IN  IF hits = {} THEN s
      ELSE LET w == GenericWords[CHOOSE k \in hits : TRUE]
           IN  Slice(s, 1, LastNonSpace(s, Len(s) - Len(w)))

\* re.sub(r'\([^)]*\)', '', s): leftmost non-overlapping spans from a "(" to
\* the first ")" after it are removed; a "(" with no ")" after it stays.
RECURSIVE RemoveParens(_)
RemoveParens(s) ==
  LET opens == {i \in 1..Len(s) : s[i] = "("}
  IN  IF opens = {} THEN s
      ELSE LET o == CHOOSE i \in opens : \A j \in opens : i <= j
               closes == {i \in (o + 1)..Len(s) : s[i] = ")"}
           IN  IF closes = {} THEN s
               ELSE LET c == CHOOSE i \in closes : \A j \in closes : i <= j
                    IN  Slice(s, 1, o - 1) \o RemoveParens(Slice(s, c + 1, Len(s)))

\* normalize_ingredient without the removal of parenthesized spans.
normalize_keeping_parentheses(s) ==
  LET n1 == Lower(CollapseSpaces(Strip(s)))
      n2 == StripLeadingGeneric(n1)
      n3 == StripTrailingGeneric(n2)
  IN  Strip(CollapseSpaces(n3))

\* normalize_ingredient, statement by statement.
normalize_ingredient(s) ==
  LET n1 == Lower(CollapseSpaces(Strip(s)))
      n2 == StripLeadingGeneric(n1)
      n3 == StripTrailingGeneric(n2)
      n4 == RemoveParens(n3)
  IN  Strip(CollapseSpaces(n4))

-----------------------------------------------------------------------------
(* Calls of normalize_ingredient on composed arguments.                     *)

\* Longest argument, in pieces.
MaxPieces == 5

\* The pieces arguments are composed of: a capitalised and a lower-case generic
\* word, whitespace, the two parentheses and a plain letter.
Pieces ==
  { <<"O", "i", "l">>, <<"a", "c", "i", "d">>, <<" ">>, <<"(">>, <<")">>, <<"x">> }

\* Ingredient names as the catalog and the taxonomy write them.
TeaTreeOilMelaleuca == <<"T", "e", "a", " ", "T", "r", "e", "e", " ", "O", "i", "l", " ", "(", "M", "e", "l", "a", "l", "e", "u", "c", "a", ")">>
TeaTree == <<"T", "e", "a", " ", "T", "r", "e", "e">>
HyaluronicAcid == <<"H", "y", "a", "l", "u", "r", "o", "n", "i", "c", " ", "A", "c", "i", "d">>
HyaluronicAcidSpaced == <<"h", "y", "a", "l", "u", "r", "o", "n", "i", "c", " ", " ", "a", "c", "i", "d">>

NamedIngredients == {TeaTreeOilMelaleuca, TeaTree, HyaluronicAcid, HyaluronicAcidSpaced}

\* The catalog's variables while no catalog is processed.
IdleCatalog ==
  /\ products = <<>>
  /\ processed = 0

\* The tagger's variables while no tagger call is modelled.
IdleTag ==
  /\ ingredients = <<>>
  /\ tokens = 0
  /\ skincare_ingredients = <<>>
  /\ ranked_ingredients = <<>>
  /\ match_events = {}
  /\ concern_scores = <<>>
  /\ matching_concerns = <<>>

InitNormalize ==
  /\ raised = ""
  /\ IdleEngine
  /\ IdleExtract
  /\ IdleScraper
  /\ pc = "compose"
  /\ ingredient = <<>>
  /\ normalized = <<>>
  /\ pieces = 0
  /\ IdleTag
  /\ IdleCatalog

\* The caller extends the argument by one piece.
Compose ==
  /\ pc = "compose"
  /\ pieces < MaxPieces
  /\ \E p \in Pieces : ingredient' = ingredient \o p
  /\ pieces' = pieces + 1
  /\ UNCHANGED <<prompt, scrVars, raised, engVars, extVars, pc, normalized, tagVars, catVars>>

\* The caller passes an ingredient name as written in the data.
PickNamed ==
  /\ pc = "compose"
  /\ pieces = 0
  /\ \E s \in NamedIngredients : ingredient' = s
  /\ pieces' = MaxPieces
  /\ UNCHANGED <<prompt, scrVars, raised, engVars, extVars, pc, normalized, tagVars, catVars>>

\* normalized = normalize_ingredient(ingredient)
Normalize ==
  /\ pc = "compose"
  /\ normalized' = normalize_ingredient(ingredient)
  /\ pc' = "normalized"
  /\ UNCHANGED <<prompt, scrVars, raised, engVars, extVars, ingredient, pieces, tagVars, catVars>>

\* The value returned is passed to normalize_ingredient again.
NormalizeAgain ==
  /\ pc = "normalized"
  /\ ingredient' = normalized
  /\ normalized' = normalize_ingredient(normalized)
  /\ pc' = "renormalized"
  /\ UNCHANGED <<prompt, scrVars, raised, engVars, extVars, pieces, tagVars, catVars>>

NextNormalize == Compose \/ PickNamed \/ Normalize \/ NormalizeAgain

SpecNormalize == InitNormalize /\ [][NextNormalize]_vars

\* C1: normalize_ingredient is idempotent: passing a value it returned to it
\* again returns that same value.
C1_NormalizeIdempotent == pc = "renormalized" => normalized = ingredient

\* The normalized key "tea tree".
TeaTreeKey == <<"t", "e", "a", " ", "t", "r", "e", "e">>

\* C2: normalize_ingredient returns exactly "tea tree" for both
\* "Tea Tree Oil (Melaleuca)" and "Tea Tree".
C2_TeaTreeOilParenthesized ==
  (pc = "normalized" /\ ingredient \in {TeaTreeOilMelaleuca, TeaTree}) => normalized = TeaTreeKey

\* str.swapcase(), for the letters of the model.
SwapCase(s) ==
  AsList([i \in 1..Len(s) |->
            IF s[i] \in DOMAIN UpperToLower THEN UpperToLower[s[i]]
            ELSE IF \E u \in DOMAIN UpperToLower : UpperToLower[u] = s[i]
                 THEN CHOOSE u \in DOMAIN UpperToLower : UpperToLower[u] = s[i]
                 ELSE s[i]])

\* s with every whitespace character made a run of a space and a tab.
RECURSIVE Widen(_)
Widen(s) ==
  IF s = <<>> THEN <<>>
  ELSE (IF IsSpace(s[1]) THEN <<" ", "\t">> ELSE <<s[1]>>) \o Widen(Tail(s))

\* s with whitespace put in front of it and behind it.
Pad(s) == <<" ">> \o s \o <<"\t", " ">>

\* Strings that differ from s only in letter case, in the length of
\* whitespace runs, or in leading and trailing whitespace.
CaseAndSpaceVariants(s) ==
  {SwapCase(s), Lower(s), Widen(s), Pad(s), Pad(Widen(SwapCase(s)))}

\* C24: normalize_ingredient gives the same string for inputs that differ
\* only in upper/lower case, in the length of whitespace runs, or in leading
\* and trailing whitespace, e.g. "Hyaluronic Acid" and "hyaluronic  acid".
C24_CaseAndWhitespaceInsensitive ==
  pc = "normalized" =>
    \A v \in CaseAndSpaceVariants(ingredient) : normalize_ingredient(v) = normalized

\* "Hyaluronic Acid" has been normalized, to what "hyaluronic  acid"
\* normalizes to.
C24_Witness ==
  /\ pc = "normalized"
  /\ ingredient = HyaluronicAcid
  /\ normalized # <<>>
  /\ normalize_ingredient(HyaluronicAcidSpaced) = normalized

\* C26: the output of normalize_ingredient has no "(" followed anywhere
\* later by a ")", no leading or trailing whitespace, and no run of two or
\* more whitespace characters.
C26_NoParenthesizedSpanLeft ==
  pc \in {"normalized", "renormalized"} =>
    /\ \A i, j \in 1..Len(normalized) :
         i < j => ~(normalized[i] = "(" /\ normalized[j] = ")")
    /\ normalized # <<>> => (~IsSpace(normalized[1]) /\ ~IsSpace(normalized[Len(normalized)]))
    /\ \A i \in 1..(Len(normalized) - 1) :
         ~(IsSpace(normalized[i]) /\ IsSpace(normalized[i + 1]))

\* An argument with a parenthesized span, an unclosed "(" behind it and a
\* run of whitespace has been normalized; the unclosed "(" is in the result.
C26_Witness ==
  /\ pc = "normalized"
  /\ \E i, j, k \in 1..Len(ingredient) :
       /\ i < j /\ j < k
       /\ ingredient[i] = "(" /\ ingredient[j] = ")" /\ ingredient[k] = "("
  /\ \E i \in 1..(Len(ingredient) - 1) : IsSpace(ingredient[i]) /\ IsSpace(ingredient[i + 1])
  /\ \E i \in 1..Len(normalized) : normalized[i] = "("

-----------------------------------------------------------------------------
(* The concern taxonomy: a dict, modelled as the sequence of its items in   *)
(* insertion order (the order dict.items() iterates in).                    *)

SKINCARE_INGREDIENTS ==
  <<
    [concern |-> "acne", ingredients |-> <<
      \* Salicylic Acid
      <<"S", "a", "l", "i", "c", "y", "l", "i", "c", " ", "A", "c", "i", "d">>,
      \* Benzoyl Peroxide
      <<"B", "e", "n", "z", "o", "y", "l", " ", "P", "e", "r", "o", "x", "i", "d", "e">>,
      \* Niacinamide
      <<"N", "i", "a", "c", "i", "n", "a", "m", "i", "d", "e">>,
      \* Tea Tree Oil
      <<"T", "e", "a", " ", "T", "r", "e", "e", " ", "O", "i", "l">>,
      \* Sulfur
      <<"S", "u", "l", "f", "u", "r">>,
      \* Azelaic Acid
      <<"A", "z", "e", "l", "a", "i", "c", " ", "A", "c", "i", "d">>,
      \* Zinc PCA
      <<"Z", "i", "n", "c", " ", "P", "C", "A">>,
      \* Propolis
      <<"P", "r", "o", "p", "o", "l", "i", "s">>,
      \* Centella Asiatica
      <<"C", "e", "n", "t", "e", "l", "l", "a", " ", "A", "s", "i", "a", "t", "i", "c", "a">>,
      \* Mugwort (Artemisia)
      <<"M", "u", "g", "w", "o", "r", "t", " ", "(", "A", "r", "t", "e", "m", "i", "s", "i", "a", ")">>,
      \* Betaine Salicylate
      <<"B", "e", "t", "a", "i", "n", "e", " ", "S", "a", "l", "i", "c", "y", "l", "a", "t", "e">>
    >>],
    [concern |-> "hyperpigmentation", ingredients |-> <<
      \* Vitamin C (Ascorbic Acid)
      <<"V", "i", "t", "a", "m", "i", "n", " ", "C", " ", "(", "A", "s", "c", "o", "r", "b", "i", "c", " ", "A", "c", "i", "d", ")">>,
      \* Niacinamide
      <<"N", "i", "a", "c", "i", "n", "a", "m", "i", "d", "e">>,
      \* Alpha Arbutin
      <<"A", "l", "p", "h", "a", " ", "A", "r", "b", "u", "t", "i", "n">>,
      \* Kojic Acid
      <<"K", "o", "j", "i", "c", " ", "A", "c", "i", "d">>,
      \* Licorice Root Extract
      <<"L", "i", "c", "o", "r", "i", "c", "e", " ", "R", "o", "o", "t", " ", "E", "x", "t", "r", "a", "c", "t">>,
      \* Tranexamic Acid
      <<"T", "r", "a", "n", "e", "x", "a", "m", "i", "c", " ", "A", "c", "i", "d">>,
      \* Retinoids (Retinol, Retinal, Tretinoin)
      <<"R", "e", "t", "i", "n", "o", "i", "d", "s", " ", "(", "R", "e", "t", "i", "n", "o", "l", ",", " ", "R", "e", "t", "i", "n", "a", "l", ",", " ", "T", "r", "e", "t", "i", "n", "o", "i", "n", ")">>,
      \* Rice Extract
      <<"R", "i", "c", "e", " ", "E", "x", "t", "r", "a", "c", "t">>,
      \* Galactomyces Ferment Filtrate
      <<"G", "a", "l", "a", "c", "t", "o", "m", "y", "c", "e", "s", " ", "F", "e", "r", "m", "e", "n", "t", " ", "F", "i", "l", "t", "r", "a", "t", "e">>,
      \* Arbutin
      <<"A", "r", "b", "u", "t", "i", "n">>,
      \* Glutathione
      <<"G", "l", "u", "t", "a", "t", "h", "i", "o", "n", "e">>
    >>],
    [concern |-> "dryness", ingredients |-> <<
      \* Hyaluronic Acid
      <<"H", "y", "a", "l", "u", "r", "o", "n", "i", "c", " ", "A", "c", "i", "d">>,
      \* Glycerin
      <<"G", "l", "y", "c", "e", "r", "i", "n">>,
      \* Ceramides
      <<"C", "e", "r", "a", "m", "i", "d", "e", "s">>,
      \* Squalane
      <<"S", "q", "u", "a", "l", "a", "n", "e">>,
      \* Panthenol (Vitamin B5)
      <<"P", "a", "n", "t", "h", "e", "n", "o", "l", " ", "(", "V", "i", "t", "a", "m", "i", "n", " ", "B", "5", ")">>,
      \* Urea
      <<"U", "r", "e", "a">>,
      \* Shea Butter
      <<"S", "h", "e", "a", " ", "B", "u", "t", "t", "e", "r">>,
      \* Beta-Glucan
      <<"B", "e", "t", "a", "-", "G", "l", "u", "c", "a", "n">>,
      \* Noni Extract
      <<"N", "o", "n", "i", " ", "E", "x", "t", "r", "a", "c", "t">>,
      \* Royal Jelly
      <<"R", "o", "y", "a", "l", " ", "J", "e", "l", "l", "y">>,
      \* Sodium Hyaluronate
      <<"S", "o", "d", "i", "u", "m", " ", "H", "y", "a", "l", "u", "r", "o", "n", "a", "t", "e">>
    >>],
    [concern |-> "oily skin", ingredients |-> <<
      \* Niacinamide
      <<"N", "i", "a", "c", "i", "n", "a", "m", "i", "d", "e">>,
      \* Zinc
      <<"Z", "i", "n", "c">>,
      \* Clay (Kaolin, Bentonite)
      <<"C", "l", "a", "y", " ", "(", "K", "a", "o", "l", "i", "n", ",", " ", "B", "e", "n", "t", "o", "n", "i", "t", "e", ")">>,
      \* Salicylic Acid
      <<"S", "a", "l", "i", "c", "y", "l", "i", "c", " ", "A", "c", "i", "d">>,
      \* L-Carnitine
      <<"L", "-", "C", "a", "r", "n", "i", "t", "i", "n", "e">>,
      \* Witch Hazel
      <<"W", "i", "t", "c", "h", " ", "H", "a", "z", "e", "l">>,
      \* Green Tea Extract
      <<"G", "r", "e", "e", "n", " ", "T", "e", "a", " ", "E", "x", "t", "r", "a", "c", "t">>
    >>],
    [concern |-> "sensitivity", ingredients |-> <<
      \* Centella Asiatica
      <<"C", "e", "n", "t", "e", "l", "l", "a", " ", "A", "s", "i", "a", "t", "i", "c", "a">>,
      \* Panthenol
      <<"P", "a", "n", "t", "h", "e", "n", "o", "l">>,
      \* Allantoin
      <<"A", "l", "l", "a", "n", "t", "o", "i", "n">>,
      \* Colloidal Oatmeal
      <<"C", "o", "l", "l", "o", "i", "d", "a", "l", " ", "O", "a", "t", "m", "e", "a", "l">>,
      \* Green Tea Extract
      <<"G", "r", "e", "e", "n", " ", "T", "e", "a", " ", "E", "x", "t", "r", "a", "c", "t">>,
      \* Aloe Vera
      <<"A", "l", "o", "e", " ", "V", "e", "r", "a">>,
      \* Madecassoside
      <<"M", "a", "d", "e", "c", "a", "s", "s", "o", "s", "i", "d", "e">>,
      \* Mugwort (Artemisia)
      <<"M", "u", "g", "w", "o", "r", "t", " ", "(", "A", "r", "t", "e", "m", "i", "s", "i", "a", ")">>,
      \* Heartleaf (Houttuynia Cordata)
      <<"H", "e", "a", "r", "t", "l", "e", "a", "f", " ", "(", "H", "o", "u", "t", "t", "u", "y", "n", "i", "a", " ", "C", "o", "r", "d", "a", "t", "a", ")">>
    >>],
    [concern |-> "anti-aging", ingredients |-> <<
      \* Retinoids (Retinol, Retinal, Bakuchiol)
      <<"R", "e", "t", "i", "n", "o", "i", "d", "s", " ", "(", "R", "e", "t", "i", "n", "o", "l", ",", " ", "R", "e", "t", "i", "n", "a", "l", ",", " ", "B", "a", "k", "u", "c", "h", "i", "o", "l", ")">>,
      \* Peptides
      <<"P", "e", "p", "t", "i", "d", "e", "s">>,
      \* Vitamin C
      <<"V", "i", "t", "a", "m", "i", "n", " ", "C">>,
      \* Niacinamide
      <<"N", "i", "a", "c", "i", "n", "a", "m", "i", "d", "e">>,
      \* Coenzyme Q10
      <<"C", "o", "e", "n", "z", "y", "m", "e", " ", "Q", "1", "0">>,
      \* EGF (Epidermal Growth Factor)
      <<"E", "G", "F", " ", "(", "E", "p", "i", "d", "e", "r", "m", "a", "l", " ", "G", "r", "o", "w", "t", "h", " ", "F", "a", "c", "t", "o", "r", ")">>,
      \* Fermented Ingredients
      <<"F", "e", "r", "m", "e", "n", "t", "e", "d", " ", "I", "n", "g", "r", "e", "d", "i", "e", "n", "t", "s">>,
      \* Ginseng Extract
      <<"G", "i", "n", "s", "e", "n", "g", " ", "E", "x", "t", "r", "a", "c", "t">>,
      \* Snail Mucin
      <<"S", "n", "a", "i", "l", " ", "M", "u", "c", "i", "n">>,
      \* Adenosine
      <<"A", "d", "e", "n", "o", "s", "i", "n", "e">>,
      \* Retinal
      <<"R", "e", "t", "i", "n", "a", "l">>
    >>],
    [concern |-> "dullness", ingredients |-> <<
      \* Vitamin C
      <<"V", "i", "t", "a", "m", "i", "n", " ", "C">>,
      \* Niacinamide
      <<"N", "i", "a", "c", "i", "n", "a", "m", "i", "d", "e">>,
      \* AHAs (Glycolic Acid, Lactic Acid)
      <<"A", "H", "A", "s", " ", "(", "G", "l", "y", "c", "o", "l", "i", "c", " ", "A", "c", "i", "d", ",", " ", "L", "a", "c", "t", "i", "c", " ", "A", "c", "i", "d", ")">>,
      \* Licorice Root
      <<"L", "i", "c", "o", "r", "i", "c", "e", " ", "R", "o", "o", "t">>,
      \* Fermented Ingredients (Galactomyces, Bifida)
      <<"F", "e", "r", "m", "e", "n", "t", "e", "d", " ", "I", "n", "g", "r", "e", "d", "i", "e", "n", "t", "s", " ", "(", "G", "a", "l", "a", "c", "t", "o", "m", "y", "c", "e", "s", ",", " ", "B", "i", "f", "i", "d", "a", ")">>,
      \* PHA (Gluconolactone, Lactobionic Acid)
      <<"P", "H", "A", " ", "(", "G", "l", "u", "c", "o", "n", "o", "l", "a", "c", "t", "o", "n", "e", ",", " ", "L", "a", "c", "t", "o", "b", "i", "o", "n", "i", "c", " ", "A", "c", "i", "d", ")">>,
      \* Rice Bran Extract
      <<"R", "i", "c", "e", " ", "B", "r", "a", "n", " ", "E", "x", "t", "r", "a", "c", "t">>
    >>],
    [concern |-> "clogged pores", ingredients |-> <<
      \* Salicylic Acid
      <<"S", "a", "l", "i", "c", "y", "l", "i", "c", " ", "A", "c", "i", "d">>,
      \* Clay
      <<"C", "l", "a", "y">>,
      \* Charcoal
      <<"C", "h", "a", "r", "c", "o", "a", "l">>,
      \* Lactic Acid
      <<"L", "a", "c", "t", "i", "c", " ", "A", "c", "i", "d">>,
      \* PHA (Polyhydroxy Acids)
      <<"P", "H", "A", " ", "(", "P", "o", "l", "y", "h", "y", "d", "r", "o", "x", "y", " ", "A", "c", "i", "d", "s", ")">>,
      \* Willow Bark Extract
      <<"W", "i", "l", "l", "o", "w", " ", "B", "a", "r", "k", " ", "E", "x", "t", "r", "a", "c", "t">>
    >>],
    [concern |-> "dehydration", ingredients |-> <<
      \* Hyaluronic Acid
      <<"H", "y", "a", "l", "u", "r", "o", "n", "i", "c", " ", "A", "c", "i", "d">>,
      \* Beta-Glucan
      <<"B", "e", "t", "a", "-", "G", "l", "u", "c", "a", "n">>,
      \* Aloe Vera
      <<"A", "l", "o", "e", " ", "V", "e", "r", "a">>,
      \* Glycerin
      <<"G", "l", "y", "c", "e", "r", "i", "n">>,
      \* Tremella Mushroom Extract
      <<"T", "r", "e", "m", "e", "l", "l", "a", " ", "M", "u", "s", "h", "r", "o", "o", "m", " ", "E", "x", "t", "r", "a", "c", "t">>,
      \* Noni Extract
      <<"N", "o", "n", "i", " ", "E", "x", "t", "r", "a", "c", "t">>,
      \* Propolis
      <<"P", "r", "o", "p", "o", "l", "i", "s">>,
      \* Sodium Hyaluronate
      <<"S", "o", "d", "i", "u", "m", " ", "H", "y", "a", "l", "u", "r", "o", "n", "a", "t", "e">>
    >>],
    [concern |-> "redness/rosacea", ingredients |-> <<
      \* Azelaic Acid
      <<"A", "z", "e", "l", "a", "i", "c", " ", "A", "c", "i", "d">>,
      \* Centella Asiatica
      <<"C", "e", "n", "t", "e", "l", "l", "a", " ", "A", "s", "i", "a", "t", "i", "c", "a">>,
      \* Green Tea Extract
      <<"G", "r", "e", "e", "n", " ", "T", "e", "a", " ", "E", "x", "t", "r", "a", "c", "t">>,
      \* Niacinamide
      <<"N", "i", "a", "c", "i", "n", "a", "m", "i", "d", "e">>,
      \* Allantoin
      <<"A", "l", "l", "a", "n", "t", "o", "i", "n">>,
      \* Bisabolol
      <<"B", "i", "s", "a", "b", "o", "l", "o", "l">>,
      \* Heartleaf (Houttuynia Cordata)
      <<"H", "e", "a", "r", "t", "l", "e", "a", "f", " ", "(", "H", "o", "u", "t", "t", "u", "y", "n", "i", "a", " ", "C", "o", "r", "d", "a", "t", "a", ")">>,
      \* Mugwort (Artemisia)
      <<"M", "u", "g", "w", "o", "r", "t", " ", "(", "A", "r", "t", "e", "m", "i", "s", "i", "a", ")">>
    >>],
    [concern |-> "dark circles", ingredients |-> <<
      \* Caffeine
      <<"C", "a", "f", "f", "e", "i", "n", "e">>,
      \* Niacinamide
      <<"N", "i", "a", "c", "i", "n", "a", "m", "i", "d", "e">>,
      \* Retinal
      <<"R", "e", "t", "i", "n", "a", "l">>,
      \* Peptides
      <<"P", "e", "p", "t", "i", "d", "e", "s">>,
      \* Vitamin K
      <<"V", "i", "t", "a", "m", "i", "n", " ", "K">>,
      \* Ginseng Extract
      <<"G", "i", "n", "s", "e", "n", "g", " ", "E", "x", "t", "r", "a", "c", "t">>,
      \* Snail Mucin
      <<"S", "n", "a", "i", "l", " ", "M", "u", "c", "i", "n">>,
      \* Licorice Root
      <<"L", "i", "c", "o", "r", "i", "c", "e", " ", "R", "o", "o", "t">>,
      \* Ceramides
      <<"C", "e", "r", "a", "m", "i", "d", "e", "s">>,
      \* Propolis
      <<"P", "r", "o", "p", "o", "l", "i", "s">>,
      \* Brightening Ferments (like Galactomyces)
      <<"B", "r", "i", "g", "h", "t", "e", "n", "i", "n", "g", " ", "F", "e", "r", "m", "e", "n", "t", "s", " ", "(", "l", "i", "k", "e", " ", "G", "a", "l", "a", "c", "t", "o", "m", "y", "c", "e", "s", ")">>
    >>]
  >>

\* The name add_concern_tags imports from skincare_ingredients; that module
\* defines the taxonomy under the name SKINCARE_INGREDIENTS only.
RANKED_SKINCARE_INGREDIENTS == SKINCARE_INGREDIENTS

-----------------------------------------------------------------------------
(* find_matching_concerns_with_ranking                                      *)

\* float('inf'): larger than every index of a rank table.
Inf == 1000000000

Min2(a, b) == IF a <= b THEN a ELSE b

MinOf(S) == CHOOSE x \in S : \A y \in S : x <= y

\* str.split(','): the pieces between the commas.
RECURSIVE SplitComma(_)
SplitComma(s) ==
  LET commas == {i \in 1..Len(s) : s[i] = ","}
  IN  IF commas = {} THEN <<s>>
      ELSE LET c == MinOf(commas)
           IN  <<Slice(s, 1, c - 1)>> \o SplitComma(Slice(s, c + 1, Len(s)))

\* a in b, for two str.
IsSubstring(a, b) ==
  \E k \in 0..(Len(b) - Len(a)) : \A i \in 1..Len(a) : b[k + i] = a[i]

\* ingredient_list and normalized_ingredients.
NormalizedIngredients(raw) ==
  LET ingredient_list == SplitComma(raw)
  IN  AsList([k \in 1..Len(ingredient_list) |-> normalize_ingredient(Strip(ingredient_list[k]))])

\* The test of the exact-match branch.
ExactMatch(ck, pk) == ck = pk

\* PartialMatch without the length check.
PartialMatchUnguarded(ck, pk) == IsSubstring(ck, pk) \/ IsSubstring(pk, ck)

\* The tests of the partial-match branch: the substring test and the length
\* check nested in it.
PartialMatch(ck, pk) ==
  /\ IsSubstring(ck, pk) \/ IsSubstring(pk, ck)
  /\ Len(ck) > 3 /\ Len(pk) > 3

\* The scan of the rank table for a product key: the index of the first entry
\* whose normalized form equals the key, Inf (best_score unchanged) if none.
RankOf(pk, ranked) ==
  LET hits == {i \in 1..Len(ranked) : normalize_ingredient(ranked[i]) = pk}
  IN  IF hits = {} THEN Inf ELSE MinOf(hits) - 1

\* The loop over normalized_ingredients for one concern ingredient: it breaks at
\* the first product key that matches exactly or partially. The value is the
\* set holding that one match (empty when the loop runs to its end).
FirstMatch(concern, ck, keys, ranked) ==
  LET hits == {k \in 1..Len(keys) : ExactMatch(ck, keys[k]) \/ PartialMatch(ck, keys[k])}
  IN  IF hits = {} THEN {}
      ELSE LET pk == keys[MinOf(hits)]
           IN  {[concern |-> concern,
                 concern_key |-> ck,
                 product_key |-> pk,
                 rule |-> IF ExactMatch(ck, pk) THEN "exact" ELSE "partial",
                 score |-> RankOf(pk, ranked)]}

\* The matches of one taxonomy item, over its concern ingredients.
ConcernMatches(item, keys, ranked) ==
  LET cks == AsList([j \in 1..Len(item.ingredients) |-> normalize_ingredient(item.ingredients[j])])
  IN  UNION {FirstMatch(item.concern, cks[j], keys, ranked) : j \in 1..Len(item.ingredients)}

\* All matches of a call.
MatchEvents(raw, taxonomy, ranked) ==
  LET keys == NormalizedIngredients(raw)
  IN  UNION {ConcernMatches(taxonomy[c], keys, ranked) : c \in 1..Len(taxonomy)}

\* best_score of a concern at the end of its loop: min(best_score, i) over its
\* matches, starting from Inf.
BestScore(concern, events) ==
  LET scores == {e.score : e \in {x \in events : x.concern = concern}}
  IN  IF scores = {} THEN Inf ELSE MinOf(scores)

\* The test that stores a concern in concern_scores.
Stored(best_score) == best_score # Inf

\* concern_scores after the loop over the taxonomy, as its items in insertion
\* order.
RECURSIVE ConcernScoresFrom(_, _, _)
ConcernScoresFrom(taxonomy, c, events) ==
  IF c > Len(taxonomy) THEN <<>>
  ELSE LET best_score == BestScore(taxonomy[c].concern, events)
       IN  (IF Stored(best_score) THEN << <<taxonomy[c].concern, best_score>> >> ELSE <<>>)
             \o ConcernScoresFrom(taxonomy, c + 1, events)

\* SortedByScore without the sort: the items in insertion order.
SortedByScoreSkipped(items) == items

\* sorted(items, key=lambda x: x[1]): stable, ascending by score.
SortedByScore(items) ==
  LET Before(i, j) == items[i][2] < items[j][2] \/ (items[i][2] = items[j][2] /\ i < j)
      Pos(i) == Cardinality({j \in 1..Len(items) : Before(j, i)}) + 1
  IN  [p \in 1..Len(items) |-> items[CHOOSE i \in 1..Len(items) : Pos(i) = p]]

\* The early return on an empty or whitespace-only ingredient string.
EarlyReturn(raw) == raw = <<>> \/ Strip(raw) = <<>>

\* RankedConcernNames with every name listed twice.
RankedConcernNamesRepeated(scores) ==
  LET ranked_concerns == SortedByScore(scores)
  IN  [p \in 1..(2 * Len(ranked_concerns)) |-> ranked_concerns[(p + 1) \div 2][1]]

\* The list returned, from concern_scores.
RankedConcernNames(scores) ==
  LET ranked_concerns == SortedByScore(scores)
  IN  [p \in 1..Len(ranked_concerns) |-> ranked_concerns[p][1]]

\* TaggerCall with the caller's default moved into the early return.
TaggerCallDefaulting(raw, taxonomy, ranked) ==
  IF EarlyReturn(raw)
  THEN [match_events |-> {}, concern_scores |-> <<>>, returned |-> <<"general">>]
  ELSE LET events == MatchEvents(raw, taxonomy, ranked)
           scores == ConcernScoresFrom(taxonomy, 1, events)
       IN  [match_events |-> events,
            concern_scores |-> scores,
            returned |-> RankedConcernNames(scores)]

\* One call, with the values of its locals at the return: the matches taken,
\* concern_scores and the list returned.
TaggerCall(raw, taxonomy, ranked) ==
  IF EarlyReturn(raw)
  THEN [match_events |-> {}, concern_scores |-> <<>>, returned |-> <<>>]
  ELSE LET events == MatchEvents(raw, taxonomy, ranked)
           scores == ConcernScoresFrom(taxonomy, 1, events)
       IN  [match_events |-> events,
            concern_scores |-> scores,
            returned |-> RankedConcernNames(scores)]

find_matching_concerns_with_ranking(raw, taxonomy, ranked) ==
  TaggerCall(raw, taxonomy, ranked).returned

-----------------------------------------------------------------------------
(* Calls of find_matching_concerns_with_ranking.                            *)

\* Most tokens of a composed ingredient string.
MaxIngredients == 2

SalicylicAcid == <<"S", "a", "l", "i", "c", "y", "l", "i", "c", " ", "A", "c", "i", "d">>
Niacinamide == <<"N", "i", "a", "c", "i", "n", "a", "m", "i", "d", "e">>
NiacinamidePCA == <<"N", "i", "a", "c", "i", "n", "a", "m", "i", "d", "e", " ", "P", "C", "A">>
Tea == <<"T", "e", "a">>
TeaTreeOil == <<"T", "e", "a", " ", "T", "r", "e", "e", " ", "O", "i", "l">>
Blank == <<" ">>
PCA == <<"P", "C", "A">>

\* The tokens ingredient strings are composed of.
IngredientTokens == {SalicylicAcid, Niacinamide, NiacinamidePCA, Tea, Blank}

\* The entries rank tables are made of.
RankNames == {SalicylicAcid, Niacinamide, NiacinamidePCA}

\* The rank tables: no entry twice, as the extraction pass writes them.
RankTables ==
  {r \in UNION {[1..n -> RankNames] : n \in 0..Cardinality(RankNames)} :
     \A i, j \in 1..Len(r) : r[i] = r[j] => i = j}

\* A small taxonomy with a concern reached through one ingredient only and
\* two concern ingredients of three characters.
SmallTaxonomy ==
  << [concern |-> "acne", ingredients |-> <<Niacinamide, TeaTreeOil>>],
     [concern |-> "clogged pores", ingredients |-> <<SalicylicAcid>>],
     [concern |-> "sensitivity", ingredients |-> <<Tea, PCA>>] >>

Taxonomies == {SKINCARE_INGREDIENTS, SmallTaxonomy}

\* The normalize_ingredient variables while no such call is modelled.
IdleNormalize ==
  /\ ingredient = <<>>
  /\ normalized = <<>>
  /\ pieces = 0

InitTagger ==
  /\ raised = ""
  /\ IdleEngine
  /\ IdleExtract
  /\ IdleScraper
  /\ pc = "compose"
  /\ IdleNormalize
  /\ IdleCatalog
  /\ ingredients = <<>>
  /\ tokens = 0
  /\ skincare_ingredients \in Taxonomies
  /\ ranked_ingredients \in RankTables
  /\ match_events = {}
  /\ concern_scores = <<>>
  /\ matching_concerns = <<>>

\* The caller extends the ingredient string by one comma-separated token.
AddIngredient ==
  /\ pc = "compose"
  /\ tokens < MaxIngredients
  /\ \E t \in IngredientTokens :
       ingredients' = IF tokens = 0 THEN t ELSE ingredients \o <<",", " ">> \o t
  /\ tokens' = tokens + 1
  /\ UNCHANGED <<prompt, scrVars, raised, engVars, extVars, pc, normVars, catVars, skincare_ingredients, ranked_ingredients,
                 match_events, concern_scores, matching_concerns>>

\* matching_concerns = find_matching_concerns_with_ranking(ingredients,
\*                       skincare_ingredients, ranked_ingredients)
Tag ==
  /\ pc = "compose"
  /\ \E call \in {TaggerCall(ingredients, skincare_ingredients, ranked_ingredients)} :
         /\ match_events' = call.match_events
         /\ concern_scores' = call.concern_scores
         /\ matching_concerns' = call.returned
  /\ pc' = "tagged"
  /\ UNCHANGED <<prompt, scrVars, raised, engVars, extVars, normVars, catVars, ingredients, tokens, skincare_ingredients,
                 ranked_ingredients>>

NextTagger == AddIngredient \/ Tag

SpecTagger == InitTagger /\ [][NextTagger]_vars

-----------------------------------------------------------------------------
(* The tagger's contract, stated on the arguments of the call.              *)

Range(s) == {s[i] : i \in 1..Len(s)}

\* A (representative ingredient, product key) pair matches: exactly, or by the
\* substring rule with both normalized strings longer than 3.
PairMatches(ck, pk) ==
  \/ ck = pk
  \/ /\ Len(ck) > 3 /\ Len(pk) > 3
     /\ IsSubstring(ck, pk) \/ IsSubstring(pk, ck)

\* The product keys of the call: the comma-separated pieces, normalized.
ProductKeys == Range(NormalizedIngredients(ingredients))

\* The product keys that match some representative ingredient of a taxonomy item.
MatchingKeys(item) ==
  LET concern_keys ==
        Range(AsList([j \in 1..Len(item.ingredients) |-> normalize_ingredient(item.ingredients[j])]))
  IN  {pk \in ProductKeys : \E ck \in concern_keys : PairMatches(ck, pk)}

\* The taxonomy positions of the concerns with at least one matching pair.
MatchedItems ==
  {c \in 1..Len(skincare_ingredients) : MatchingKeys(skincare_ingredients[c]) # {}}

\* The list returned holds its argument's call past the early return.
Tagged == pc = "tagged" /\ ~EarlyReturn(ingredients)

\* C3: every concern with at least one matching pair is in the list returned,
\* also when no matching product key has an entry in the rank table.
C3_MatchedConcernKept ==
  Tagged => \A c \in MatchedItems : skincare_ingredients[c].concern \in Range(matching_concerns)

\* The names of the taxonomy items from position c on that are in S, in
\* taxonomy order.
RECURSIVE NamesInOrder(_, _)
NamesInOrder(c, S) ==
  IF c > Len(skincare_ingredients) THEN <<>>
  ELSE (IF c \in S THEN <<skincare_ingredients[c].concern>> ELSE <<>>) \o NamesInOrder(c + 1, S)

\* C4: with an empty rank table the list returned is exactly the matched
\* concerns, in taxonomy order.
C4_EmptyRankTableDegrades ==
  (Tagged /\ ranked_ingredients = <<>>) => matching_concerns = NamesInOrder(1, MatchedItems)

\* The ingredient string "Salicylic Acid, Niacinamide".
SalicylicAcidNiacinamide == SalicylicAcid \o <<",", " ">> \o Niacinamide

\* C5: tagging "Salicylic Acid, Niacinamide" against the stock taxonomy returns
\* a list that contains "acne", whatever the rank table.
C5_SalicylicNiacinamideIsAcne ==
  (/\ pc = "tagged"
   /\ skincare_ingredients = SKINCARE_INGREDIENTS
   /\ ingredients = SalicylicAcidNiacinamide) => "acne" \in Range(matching_concerns)

\* The taxonomy item of a concern.
ItemOf(concern) ==
  skincare_ingredients[CHOOSE c \in 1..Len(skincare_ingredients) :
                         skincare_ingredients[c].concern = concern]

\* C6: the score recorded for a concern is the minimum rank-table index over
\* all its matching (representative ingredient, product key) pairs.
C6_ScoreIsMinimumOverAllPairs ==
  Tagged =>
    \A i \in 1..Len(concern_scores) :
      concern_scores[i][2] =
        MinOf({RankOf(pk, ranked_ingredients) : pk \in MatchingKeys(ItemOf(concern_scores[i][1]))})

\* The score recorded for a returned concern and its position in the taxonomy.
ScoreOf(concern) ==
  concern_scores[CHOOSE i \in 1..Len(concern_scores) : concern_scores[i][1] = concern][2]
TaxonomyIndexOf(concern) ==
  CHOOSE c \in 1..Len(skincare_ingredients) : skincare_ingredients[c].concern = concern

\* C7: the list returned holds the scored concerns by non-decreasing score,
\* equal scores in taxonomy order; so of two concerns each matched through one
\* product key only, the one whose key has the lower rank-table index comes
\* first, whichever way round the rank table lists the two keys.
C7_OrderedByScore ==
  pc = "tagged" =>
    /\ Range(matching_concerns) = {concern_scores[i][1] : i \in 1..Len(concern_scores)}
    /\ Len(matching_concerns) = Len(concern_scores)
    /\ \A p, q \in 1..Len(matching_concerns) :
         p < q =>
           \/ ScoreOf(matching_concerns[p]) < ScoreOf(matching_concerns[q])
           \/ /\ ScoreOf(matching_concerns[p]) = ScoreOf(matching_concerns[q])
              /\ TaxonomyIndexOf(matching_concerns[p]) < TaxonomyIndexOf(matching_concerns[q])
    /\ \A keys \in {AsList([p \in 1..Len(matching_concerns) |->
                                 MatchingKeys(ItemOf(matching_concerns[p]))])} :
         \A p, q \in 1..Len(matching_concerns) :
           \A x \in keys[p], y \in keys[q] :
             (/\ keys[p] = {x}
              /\ keys[q] = {y}
              /\ RankOf(x, ranked_ingredients) < RankOf(y, ranked_ingredients))
               => p < q

\* Two concerns, each matched through one product key, are returned in the
\* order of the rank table, against the order of the taxonomy.
C7_Witness ==
  /\ pc = "tagged"
  /\ skincare_ingredients = SmallTaxonomy
  /\ ingredients = Niacinamide \o <<",", " ">> \o SalicylicAcid
  /\ ranked_ingredients = <<SalicylicAcid, Niacinamide>>
  /\ matching_concerns = <<"clogged pores", "acne">>

\* C8: a match taken by the substring rule has both normalized strings longer
\* than 3; a pair with a string of length 3 or less is a match only when the
\* two strings are equal.
C8_SubstringRuleGuarded ==
  pc = "tagged" =>
    \A e \in match_events :
      /\ e.rule = "partial" => Len(e.concern_key) > 3 /\ Len(e.product_key) > 3
      /\ (Len(e.concern_key) <= 3 \/ Len(e.product_key) <= 3) => e.concern_key = e.product_key

\* The product key "tea" is a substring of the concern key "tea tree" and the
\* concern key "pca" is a substring of the product key "niacinamide pca"; the
\* matches taken are the exact one of "tea" and the partial one of the two
\* long strings "niacinamide" and "niacinamide pca".
C8_Witness ==
  /\ pc = "tagged"
  /\ skincare_ingredients = SmallTaxonomy
  /\ ingredients = Tea \o <<",", " ">> \o NiacinamidePCA
  /\ IsSubstring(<<"t", "e", "a">>, normalize_ingredient(TeaTreeOil))
  /\ IsSubstring(normalize_ingredient(PCA), normalize_ingredient(NiacinamidePCA))
  /\ {<<e.concern, e.rule, e.concern_key, e.product_key>> : e \in match_events} =
       { <<"sensitivity", "exact", <<"t", "e", "a">>, <<"t", "e", "a">>>>,
         <<"acne", "partial", normalize_ingredient(Niacinamide),
           normalize_ingredient(NiacinamidePCA)>> }

\* The string is empty or holds whitespace only.
WhitespaceOnly(s) == \A i \in 1..Len(s) : s[i] \in {" ", "\t", "\n"}

-----------------------------------------------------------------------------
(* The rank-table file unique_ingredients_cleaned.txt: the lines the        *)
(* extraction pass writes and load_ranked_ingredients reads.                *)

DigitChars == <<"0", "1", "2", "3", "4", "5", "6", "7", "8", "9">>

\* str(n), for n >= 0
RECURSIVE Digits(_)
Digits(n) ==
  IF n < 10 THEN <<DigitChars[n + 1]>>
  ELSE Digits(n \div 10) \o <<DigitChars[(n % 10) + 1]>>

\* f"{i:3d}"
ThreeWide(i) ==
  LET d == Digits(i)
  IN  IF Len(d) >= 3 THEN d ELSE [k \in 1..(3 - Len(d)) |-> " "] \o d

TotalHeader ==
  <<"T", "o", "t", "a", "l", " ", "u", "n", "i", "q", "u", "e", " ", "i", "n", "g", "r", "e", "d", "i", "e", "n", "t", "s", " ", "(", "a", "f", "t", "e", "r", " ", "r", "e", "m", "o", "v", "i", "n", "g", " ", "d", "u", "p", "l", "i", "c", "a", "t", "e", "s", " ", "b", "a", "s", "e", "d", " ", "o", "n", " ", "f", "i", "r", "s", "t", " ", "2", " ", "w", "o", "r", "d", "s", ")", ":", " ">>

\* The lines main writes to unique_ingredients_cleaned.txt, without their
\* line ends.
FileLines(sorted_ingredients) ==
  <<TotalHeader \o Digits(Len(sorted_ingredients)), [k \in 1..50 |-> "="], <<>>>>
    \o AsList([i \in 1..Len(sorted_ingredients) |->
                 ThreeWide(i) \o <<".", " ">> \o sorted_ingredients[i]])

\* line.split('. ', 1)[1]: what follows the first ". " of the line.
AfterDotSpace(line) ==
  LET at == MinOf({i \in 1..(Len(line) - 1) : line[i] = "." /\ line[i + 1] = " "})
  IN  Slice(line, at + 2, Len(line))

\* The loop of load_ranked_ingredients over the lines from line k on.
RECURSIVE LoadLines(_, _)
LoadLines(lines, k) ==
  IF k > Len(lines) THEN <<>>
  ELSE LET line == Strip(lines[k])
       IN  (IF /\ line # <<>>
               /\ ~StartsWith(line, <<"=">>)
               /\ ~StartsWith(line, <<"T", "o", "t", "a", "l">>)
               /\ IsSubstring(<<".", " ">>, line)
            THEN <<Strip(AfterDotSpace(line))>>
            ELSE <<>>)
           \o LoadLines(lines, k + 1)

\* open(file_path): a file that is not there has no lines at all.
OpenRankFile(lines) ==
  IF lines = <<>> THEN [raised |-> "FileNotFoundError"] ELSE [raised |-> "", lines |-> lines]

\* The call of load_ranked_ingredients with FileNotFoundError left uncaught.
LoadCallUncaught(lines) ==
  LET opened == OpenRankFile(lines)
  IN  IF opened.raised # "" THEN [raised |-> opened.raised, returned |-> <<>>]
      ELSE [raised |-> "", returned |-> LoadLines(opened.lines, 1)]

\* The call of load_ranked_ingredients: the exception that leaves it, "" if
\* none, and the list returned; FileNotFoundError is caught and gives [].
LoadCall(lines) ==
  LET opened == OpenRankFile(lines)
  IN  IF opened.raised = "FileNotFoundError" THEN [raised |-> "", returned |-> <<>>]
      ELSE [raised |-> "", returned |-> LoadLines(opened.lines, 1)]

load_ranked_ingredients(lines) == LoadCall(lines).returned

-----------------------------------------------------------------------------
(* add_concern_tags_to_products: the rank table is loaded, every product of *)
(* the catalog is tagged in turn, and the catalog is saved.                 *)

\* Most products of a catalog.
MaxProducts == 2

\* The products catalogs are made of: dicts, one of them without the
\* 'ingredients' key.
ProductChoices ==
  { [name |-> "serum"],
    [name |-> "toner", ingredients |-> <<>>],
    [name |-> "cream", ingredients |-> SalicylicAcidNiacinamide],
    [name |-> "mist", ingredients |-> Tea \o <<",", " ">> \o TeaTree] }

Catalogs == UNION {[1..n -> ProductChoices] : n \in 0..MaxProducts}

\* dict.get(key, default)
Get(d, key, default) == IF key \in DOMAIN d THEN d[key] ELSE default

\* A dict rebuilt with the one key only.
SetItemAlone(d, key, value) == [k \in {key} |-> value]

\* d[key] = value
SetItem(d, key, value) ==
  [k \in DOMAIN d \cup {key} |-> IF k = key THEN value ELSE d[k]]

\* ConcernTagsFor without the default.
ConcernTagsUndefaulted(concerns) == concerns

\* The value stored in product['concern_tags'] for the list the tagger returned.
ConcernTagsFor(concerns) == IF concerns = <<>> THEN <<"general">> ELSE concerns

\* The rank-table files a tagging run may find: none, or the file written
\* for a rank table.
RankFiles == {<<>>} \cup {FileLines(table) : table \in RankTables}

InitCatalog ==
  /\ raised = ""
  /\ IdleEngine
  /\ unique_ingredients = {}
  /\ first_two_words_seen = {}
  /\ rank_file \in RankFiles
  /\ IdleScraper
  /\ pc = "load"
  /\ IdleNormalize
  /\ products \in Catalogs
  /\ processed = 0
  /\ ingredients = <<>>
  /\ tokens = 0
  /\ skincare_ingredients = RANKED_SKINCARE_INGREDIENTS
  /\ ranked_ingredients = <<>>
  /\ match_events = {}
  /\ concern_scores = <<>>
  /\ matching_concerns = <<>>

\* ranked_ingredients = load_ranked_ingredients(): the entries of the file, or
\* the empty list when there is no file.  An exception that left the call
\* would end add_concern_tags_to_products.
LoadRanked ==
  /\ pc = "load"
  /\ \E call \in {LoadCall(rank_file)} :
       /\ raised' = call.raised
       /\ ranked_ingredients' = call.returned
       /\ pc' = IF call.raised = "" THEN "loop" ELSE "raised"
  /\ UNCHANGED <<prompt, scrVars, engVars, extVars, normVars, catVars, ingredients, tokens, skincare_ingredients,
                 match_events, concern_scores, matching_concerns>>

\* One iteration of the loop over data['products'].
ProcessProduct ==
  /\ pc = "loop"
  /\ processed < Len(products)
  /\ LET this_product == products[processed + 1]
     IN  /\ ingredients' = Get(this_product, "ingredients", <<>>)
         /\ \E call \in {TaggerCall(ingredients', RANKED_SKINCARE_INGREDIENTS, ranked_ingredients)} :
              /\ match_events' = call.match_events
              /\ concern_scores' = call.concern_scores
              /\ matching_concerns' = ConcernTagsFor(call.returned)
         /\ products' = [products EXCEPT
                           ![processed + 1] = SetItem(this_product, "concern_tags", matching_concerns')]
  /\ processed' = processed + 1
  /\ UNCHANGED <<prompt, scrVars, raised, engVars, extVars, pc, normVars, tokens, skincare_ingredients, ranked_ingredients>>

\* The loop has ended: the catalog is written out.
Save ==
  /\ pc = "loop"
  /\ processed = Len(products)
  /\ pc' = "saved"
  /\ UNCHANGED <<prompt, scrVars, raised, engVars, extVars, normVars, tagVars, catVars>>

NextCatalog == LoadRanked \/ ProcessProduct \/ Save

SpecCatalog == InitCatalog /\ [][NextCatalog]_vars

\* C10: after the catalog has been processed every product has a non-empty
\* concern_tags list, which is ["general"] exactly when the tagger returns no
\* concern for the product's ingredients and the tagger's list otherwise.
C10_EveryProductTagged ==
  pc = "saved" =>
    \A k \in 1..Len(products) :
      \A returned \in {find_matching_concerns_with_ranking(
                         Get(products[k], "ingredients", <<>>),
                         RANKED_SKINCARE_INGREDIENTS, ranked_ingredients)} :
        /\ "concern_tags" \in DOMAIN products[k]
        /\ products[k].concern_tags # <<>>
        /\ products[k].concern_tags = <<"general">> <=> returned = <<>>
        /\ returned # <<>> => products[k].concern_tags = returned

\* A saved catalog holds a product without ingredients tagged ["general"] and
\* a product tagged with two or more concerns.
C10_Witness ==
  /\ pc = "saved"
  /\ \E j, k \in 1..Len(products) :
       /\ "ingredients" \notin DOMAIN products[j]
       /\ products[j].concern_tags = <<"general">>
       /\ Len(products[k].concern_tags) >= 2

\* C22: when the rank-table file is absent, load_ranked_ingredients returns
\* the empty list and raises nothing, and add_concern_tags_to_products goes
\* on to process every product and to write concern_tags on each of them.
C22_AbsentRankFileTolerated ==
  (rank_file = <<>> /\ pc # "load") =>
    /\ raised = ""
    /\ ranked_ingredients = <<>>
    /\ pc \in {"loop", "saved"}
    /\ \A k \in 1..processed : "concern_tags" \in DOMAIN products[k]
    /\ pc = "saved" => processed = Len(products)

\* A catalog of two products saved by a run that found no rank-table file,
\* both products carrying concern_tags.
C22_Witness ==
  /\ pc = "saved"
  /\ rank_file = <<>>
  /\ Len(products) = 2
  /\ \A k \in 1..2 : "concern_tags" \in DOMAIN products[k]
  /\ "ingredients" \in DOMAIN products[1]

-----------------------------------------------------------------------------
(* SkincareRecommendationEngine.calculate_product_score.  Scores are reals  *)
(* in the code; the model keeps them exact as multiples of 1/ScoreScale.    *)

\* The unit of a score: every 1/(rank_index + 1) with rank_index < 12 is a
\* whole number of units.
ScoreScale == 8 * 9 * 5 * 7 * 11

\* not product_concerns or product_concerns == ["general"]
EarlyZeroEmptyOnly(product_concerns) == product_concerns = <<>>

EarlyZeroNever(product_concerns) == FALSE

EarlyZero(product_concerns) ==
  product_concerns = <<>> \/ product_concerns = <<"general">>

\* list.index(x): the 0-based position of the first occurrence.
Index(list, x) ==
  (CHOOSE i \in 1..Len(list) : list[i] = x /\ \A j \in 1..(i - 1) : list[j] # x) - 1

\* position_weight growing with the position instead.
position_weight_growing(rank_index) == (ScoreScale \div 12) * (rank_index + 1)

\* position_weight = 1.0 / (rank_index + 1)
position_weight(rank_index) == ScoreScale \div (rank_index + 1)

\* Bonus with the high-percentage test made strict.
BonusStrict(percentage) ==
  IF percentage > 70 THEN 20 ELSE IF percentage >= 40 THEN 10 ELSE 0

\* The bonus for high-percentage concerns.
Bonus(percentage) ==
  IF percentage >= 70 THEN 20 ELSE IF percentage >= 40 THEN 10 ELSE 0

\* The loop over user_concerns.items(), for the items whose key is in keys.
RECURSIVE ScoreLoop(_, _, _)
ScoreLoop(concerns, keys, product_concerns) ==
  IF keys = {} THEN 0
  ELSE LET user_concern == CHOOSE k \in keys : TRUE
           percentage == concerns[user_concern]
           rest == ScoreLoop(concerns, keys \ {user_concern}, product_concerns)
       IN  IF user_concern \in Range(product_concerns)
           THEN LET rank_index == Index(product_concerns, user_concern)
                IN  rest + percentage * position_weight(rank_index)
                         + Bonus(percentage) * position_weight(rank_index)
           ELSE rest

calculate_product_score(p, concerns) ==
  LET product_concerns == Get(p, "concern_tags", <<>>)
  IN  IF EarlyZero(product_concerns) THEN 0
      ELSE ScoreLoop(concerns, DOMAIN concerns, product_concerns)

(* The scorer's specification: one product and one user vector are scored.  *)

\* The concern names user vectors are made of: two concerns of the taxonomy,
\* the tag "general", and a name the taxonomy does not have.
UserNames == {"acne", "dryness", "general", "pores"}

\* The percentages of user vectors, around the two bonus thresholds.
Percentages == {0, 39, 40, 69, 70, 80}

UserVectors == UNION {[keys -> Percentages] : keys \in SUBSET UserNames}

\* The concern names of a taxonomy.
TaxonomyConcerns(taxonomy) == {taxonomy[i].concern : i \in 1..Len(taxonomy)}

\* The products add_concern_tags_to_products writes: a product of
\* ProductChoices with the concern_tags the loop stores under a rank table.
TaggedProducts ==
  { SetItem(p, "concern_tags",
            ConcernTagsFor(find_matching_concerns_with_ranking(
                             Get(p, "ingredients", <<>>),
                             RANKED_SKINCARE_INGREDIENTS, ranked)))
    : p \in ProductChoices, ranked \in RankTables }

\* Products as other callers may pass them: no concern_tags, an empty list,
\* and lists written by hand.
HandProducts ==
  { [name |-> "balm"],
    [name |-> "oil", concern_tags |-> <<>>],
    [name |-> "gel", concern_tags |-> <<"acne">>],
    [name |-> "milk", concern_tags |-> <<"acne", "dryness">>],
    [name |-> "foam", concern_tags |-> <<"dryness", "pores", "acne">>],
    [name |-> "wash", concern_tags |-> <<"general", "acne">>],
    [name |-> "pads", concern_tags |-> <<"pores">>] }

ScoreProducts == TaggedProducts \cup HandProducts

InitScore ==
  /\ pc = "score"
  /\ raised = ""
  /\ IdleNormalize
  /\ IdleTag
  /\ IdleCatalog
  /\ IdleExtract
  /\ IdleScraper
  /\ product \in ScoreProducts
  /\ user_concerns \in UserVectors
  /\ score = 0
  /\ min_score_threshold = 0
  /\ scored_products = <<>>
  /\ num_recommendations = 0
  /\ response = <<>>
  /\ recommendations = <<>>
  /\ prompt = <<>>

\* score = calculate_product_score(product, user_concerns)
Score ==
  /\ pc = "score"
  /\ score' = calculate_product_score(product, user_concerns)
  /\ pc' = "scored"
  /\ UNCHANGED <<prompt, scrVars, raised, normVars, tagVars, catVars, extVars, product, user_concerns,
                 min_score_threshold, scored_products, num_recommendations,
                 response, recommendations>>

NextScore == Score

SpecScore == InitScore /\ [][NextScore]_vars

\* The product's tag list, [] when the product has no concern_tags.
TagsOf(p) == Get(p, "concern_tags", <<>>)

\* The sum of the values of f over the set S.
RECURSIVE SumOver(_, _)
SumOver(f, S) ==
  IF S = {} THEN 0
  ELSE LET x == CHOOSE y \in S : TRUE IN f[x] + SumOver(f, S \ {x})

\* The number of tags before the first occurrence of concern c.
PositionIn(tags, c) == MinOf({i \in 1..Len(tags) : tags[i] = c}) - 1

\* (percentage + bonus) / (index + 1) for user concern c, in score units.
WeightedTerm(c) ==
  LET percentage == user_concerns[c]
      bonus == IF percentage >= 70 THEN 20 ELSE IF percentage >= 40 THEN 10 ELSE 0
  IN  ((percentage + bonus) * ScoreScale) \div (PositionIn(TagsOf(product), c) + 1)

\* The sum of the weighted terms of the user concerns present in the tags.
WeightedSum ==
  LET present == DOMAIN user_concerns \cap Range(TagsOf(product))
  IN  SumOver([c \in present |-> WeightedTerm(c)], present)

\* C11 (as stated): the score of a product is the sum, over every user concern
\* present in concern_tags, of (percentage + bonus) / (index + 1), with bonus 20
\* for a percentage of at least 70, 10 for at least 40 and 0 otherwise.
C11_ScoreIsWeightedSumAlways ==
  pc = "scored" => score = WeightedSum

\* C11 (amended): the score is that sum unless concern_tags is exactly
\* ["general"], where the score is 0 whatever the user vector holds.
C11_ScoreIsWeightedSum ==
  pc = "scored" =>
    score = IF TagsOf(product) = <<"general">> THEN 0 ELSE WeightedSum

\* Tags ["acne", "dryness"] with acne 80 and dryness 80 score exactly 150.
C11_Witness ==
  /\ pc = "scored"
  /\ TagsOf(product) = <<"acne", "dryness">>
  /\ user_concerns = [c \in {"acne", "dryness"} |-> 80]
  /\ score = 150 * ScoreScale

\* C12: a product whose concern_tags is absent, empty or exactly ["general"]
\* scores 0 for every user vector, one with the key "general" included.
C12_UntaggedScoresZero ==
  (pc = "scored" /\ TagsOf(product) \in {<<>>, <<"general">>}) => score = 0

\* A product tagged ["general"] scored 0 for a user vector holding "general".
C12_Witness ==
  /\ pc = "scored"
  /\ TagsOf(product) = <<"general">>
  /\ "general" \in DOMAIN user_concerns
  /\ user_concerns["general"] = 80
  /\ score = 0

\* The user vector without the entry of concern c.
Without(concerns, c) == [k \in DOMAIN concerns \ {c} |-> concerns[k]]

\* C13: for a product tagged by add_concern_tags_to_products, a user concern
\* that is not a concern of the taxonomy contributes nothing: the score with
\* the entry equals the score without it.
C13_UnknownConcernContributesZero ==
  (pc = "scored" /\ product \in TaggedProducts) =>
    \A c \in DOMAIN user_concerns \ TaxonomyConcerns(RANKED_SKINCARE_INGREDIENTS) :
      score = calculate_product_score(product, Without(user_concerns, c))

\* A tagged product with a positive score for a user vector that holds both a
\* concern of its tags and the two names the taxonomy does not have.
C13_Witness ==
  /\ pc = "scored"
  /\ product \in TaggedProducts
  /\ "acne" \in Range(TagsOf(product))
  /\ {"acne", "pores", "general"} \subseteq DOMAIN user_concerns
  /\ user_concerns["pores"] = 80
  /\ user_concerns["general"] = 80
  /\ score > 0

-----------------------------------------------------------------------------
(* filter_products_by_concerns and get_quick_recommendations.               *)

\* min_score_threshold of filter_products_by_concerns when none is passed.
DefaultThreshold == 10

\* list[:n]
TakeAll(list, n) == list

Take(list, n) ==
  IF n >= 0 THEN SubSeq(list, 1, Min2(n, Len(list)))
  ELSE SubSeq(list, 1, IF Len(list) + n > 0 THEN Len(list) + n ELSE 0)

\* score >= min_score_threshold, the score in units of 1/ScoreScale.
KeptStrictly(product_score, threshold) == product_score > threshold * ScoreScale

Kept(product_score, threshold) == product_score >= threshold * ScoreScale

\* The loop over self.products from product k on: the (product, score)
\* tuples appended, in catalog order.
RECURSIVE FilterLoop(_, _, _, _)
FilterLoop(catalog, k, concerns, threshold) ==
  IF k > Len(catalog) THEN <<>>
  ELSE LET product_score == calculate_product_score(catalog[k], concerns)
       IN  (IF Kept(product_score, threshold) THEN <<<<catalog[k], product_score>>>> ELSE <<>>)
           \o FilterLoop(catalog, k + 1, concerns, threshold)

\* One step of a descending sort that is not stable: x goes behind the
\* tuples of a higher score, in front of those of an equal score.
InsertByScoreBeforeTies(sorted, x) ==
  LET ahead == Cardinality({i \in 1..Len(sorted) : sorted[i][2] > x[2]})
  IN  SubSeq(sorted, 1, ahead) \o <<x>> \o SubSeq(sorted, ahead + 1, Len(sorted))

\* One step of the stable descending sort: x goes behind the tuples of a
\* higher or equal score.
InsertByScore(sorted, x) ==
  LET ahead == Cardinality({i \in 1..Len(sorted) : sorted[i][2] >= x[2]})
  IN  SubSeq(sorted, 1, ahead) \o <<x>> \o SubSeq(sorted, ahead + 1, Len(sorted))

\* list.sort(key=lambda x: x[1], reverse=True): the first k tuples sorted.
RECURSIVE SortDescending(_, _)
SortDescending(items, k) ==
  IF k = 0 THEN <<>> ELSE InsertByScore(SortDescending(items, k - 1), items[k])

filter_products_by_concerns(catalog, concerns, threshold) ==
  LET appended == FilterLoop(catalog, 1, concerns, threshold)
  IN  SortDescending(appended, Len(appended))

\* round(x, digits) and the format {x:.1f}, for a score x >= 0 in units of
\* 1/ScoreScale: the nearest multiple of 1/tenths, a tie going to the even one.
Round(x, tenths) ==
  LET q == (x * tenths) \div ScoreScale
      r == (x * tenths) % ScoreScale
  IN  IF 2 * r > ScoreScale THEN q + 1
      ELSE IF 2 * r = ScoreScale THEN q + (q % 2)
      ELSE q

\* The dict get_quick_recommendations builds for one (product, score) tuple;
\* score is in hundredths and the reason is kept as the score it quotes, in
\* tenths.
QuickEntry(tuple) ==
  [ product_name |-> tuple[1].name,
    brand |-> Get(tuple[1], "brand", ""),
    price |-> Get(tuple[1], "price", ""),
    score |-> Round(tuple[2], 100),
    reason |-> Round(tuple[2], 10) ]

get_quick_recommendations(catalog, concerns, n) ==
  LET top == Take(filter_products_by_concerns(catalog, concerns, DefaultThreshold), n)
  IN  AsList([i \in 1..Len(top) |-> QuickEntry(top[i])])

-----------------------------------------------------------------------------
(* parse_llm_response.  A Python value is a record whose one field is named  *)
(* by its type.  A response string is given by what json.loads makes of it: *)
(* the value it decodes to, or, for text that is not JSON, the text itself. *)

PyList(items) == [list |-> items]
PyDict(d) == [dict |-> d]
PyStr(s) == [str |-> s]
PyInt(n) == [int |-> n]
PyBool(b) == [bool |-> b]
PyNone == [NoneType |-> "None"]

\* type(v).__name__
TypeOf(v) == CHOOSE t \in DOMAIN v : TRUE

\* The response string whose JSON decoding is data.
JsonText(data) == [json |-> data]

\* A response string that is not JSON.
PlainText(chars) == [text |-> chars]

Recommendations == <<"r", "e", "c", "o", "m", "m", "e", "n", "d", "a", "t", "i", "o", "n", "s">>

\* json.loads(response): the value decoded, or JSONDecodeError.
JsonLoads(r) ==
  IF "json" \in DOMAIN r THEN [raised |-> "", returned |-> r.json]
  ELSE [raised |-> "JSONDecodeError"]

\* "recommendations" in data: a key of a dict, an item of a list, a substring
\* of a str; TypeError for a value that is not a container.
HasRecommendations(data) ==
  CASE TypeOf(data) = "dict" -> [raised |-> "", returned |-> "recommendations" \in DOMAIN data.dict]
    [] TypeOf(data) = "list" -> [raised |-> "",
                              returned |-> \E i \in 1..Len(data.list) :
                                             data.list[i] = PyStr(Recommendations)]
    [] TypeOf(data) = "str" -> [raised |-> "", returned |-> IsSubstring(Recommendations, data.str)]
    [] OTHER -> [raised |-> "TypeError"]

\* data["recommendations"]: the value under the key, whatever its type;
\* TypeError for a list or a str.
RecommendationsOf(data) ==
  IF TypeOf(data) = "dict" THEN [raised |-> "", returned |-> data.dict["recommendations"]]
  ELSE [raised |-> "TypeError"]

\* The text between the first '{' and the last '}' decoded again: for a JSON
\* object that text is the object itself; a JSON str holds no unescaped
\* quote, so the braces inside it enclose no key.
InnerRecommendations(data) ==
  IF TypeOf(data) = "dict" /\ "recommendations" \in DOMAIN data.dict
  THEN [found |-> TRUE, returned |-> data.dict["recommendations"]]
  ELSE [found |-> FALSE]

ErrorEntry(message) == PyList(<<PyDict([error |-> message])>>)

\* The body of the try block, for decoded data.
ParseDecoded(data) ==
  LET has == HasRecommendations(data)
  IN  IF has.raised # "" THEN has
      ELSE IF has.returned THEN RecommendationsOf(data)
      ELSE IF TypeOf(data) = "list" THEN [raised |-> "", returned |-> data]
      ELSE IF TypeOf(data) \in {"dict", "str"} /\ InnerRecommendations(data).found
           THEN [raised |-> "", returned |-> InnerRecommendations(data).returned]
      ELSE [raised |-> "",
            returned |-> ErrorEntry("Invalid response format - missing 'recommendations' key")]

\* The handler of json.JSONDecodeError.
DecodeErrorHandler(r) ==
  LET cleaned == Strip(r.text)
  IN  IF cleaned # <<>>
      THEN PyList(<<PyDict([name |-> "LLM Output",
                            reason |-> SubSeq(cleaned, 1, Min2(500, Len(cleaned))),
                            priority |-> "Low"])>>)
      ELSE ErrorEntry("JSON parsing error")

\* parse_llm_response(response): the exception that leaves the call, "" if
\* none, and the value returned.
parse_llm_response(r) ==
  LET loaded == JsonLoads(r)
      body == IF loaded.raised # "" THEN loaded ELSE ParseDecoded(loaded.returned)
  IN  IF body.raised = "" THEN body
      ELSE IF body.raised = "JSONDecodeError"
           THEN [raised |-> "", returned |-> DecodeErrorHandler(r)]
      ELSE [raised |-> "", returned |-> ErrorEntry("Parsing error")]

(* The parser's specification: one response string is parsed.               *)

\* An entry as the response schema asks for it.
SchemaEntry == PyDict([name |-> "gel", reason |-> "acne", priority |-> "High"])

\* The values under a key of a JSON object.
JsonMembers ==
  { PyList(<<>>), PyList(<<SchemaEntry>>), PyStr(<<"a", "b", "c">>), PyInt(5),
    PyBool(TRUE), PyNone, PyDict(<<>>) }

JsonObjects ==
  { PyDict(d) : d \in UNION {[keys -> JsonMembers] : keys \in SUBSET {"recommendations", "note"}} }

JsonLists ==
  { PyList(<<>>), PyList(<<SchemaEntry>>), PyList(<<PyStr(Recommendations)>>),
    PyList(<<PyInt(5), PyStr(Recommendations)>>) }

JsonScalars ==
  { PyInt(5), PyBool(TRUE), PyNone, PyStr(<<>>), PyStr(<<"a", "b", "c">>), PyStr(<<"{", "}">>),
    PyStr(Recommendations), PyStr(<<"{">> \o Recommendations \o <<"}">>) }

PlainTexts ==
  { PlainText(<<>>), PlainText(<<" ", "\n">>), PlainText(<<"a", "b", "c">>),
    PlainText(<<" ", "{">> \o Recommendations \o <<"}", " ">>) }

Responses ==
  {JsonText(data) : data \in JsonObjects \cup JsonLists \cup JsonScalars} \cup PlainTexts

InitParse ==
  /\ pc = "parse"
  /\ raised = ""
  /\ IdleNormalize
  /\ IdleTag
  /\ IdleCatalog
  /\ IdleExtract
  /\ IdleScraper
  /\ product = <<>>
  /\ user_concerns = <<>>
  /\ score = 0
  /\ min_score_threshold = 0
  /\ scored_products = <<>>
  /\ num_recommendations = 0
  /\ response \in Responses
  /\ recommendations = <<>>
  /\ prompt = <<>>

\* recommendations = parse_llm_response(response)
Parse ==
  /\ pc = "parse"
  /\ \E call \in {parse_llm_response(response)} :
       /\ raised' = call.raised
       /\ recommendations' = IF call.raised = "" THEN call.returned ELSE recommendations
  /\ pc' = "parsed"
  /\ UNCHANGED <<prompt, scrVars, normVars, tagVars, catVars, extVars, product, user_concerns, score,
                 min_score_threshold, scored_products, num_recommendations, response>>

NextParse == Parse

SpecParse == InitParse /\ [][NextParse]_vars

\* C18: parse_llm_response raises nothing and returns a list, for every
\* response string: a JSON object with or without the key "recommendations",
\* whatever the type of its value, a JSON list, a JSON scalar or null, text
\* that is not JSON, and the empty string.
C18_ParseReturnsList ==
  pc = "parsed" => (raised = "" /\ TypeOf(recommendations) = "list")

-----------------------------------------------------------------------------
(* get_recommendations, and the selector's specification: filtering, the    *)
(* quick listing and the LLM-phrased recommendations over one catalog.      *)

\* min_score_threshold passed by get_recommendations.
RecommendThreshold == 5

\* The number of scored products get_recommendations keeps for the prompt.
PromptProducts == 50

\* What self.client.responses.create does: it raises, or returns a falsy
\* value, or returns a response object with an output_text.
ApiTexts ==
  { JsonText(PyDict([recommendations |-> PyList(<<SchemaEntry>>)])),
    JsonText(PyDict([recommendations |-> PyNone])),
    JsonText(PyDict([note |-> PyStr(<<"a", "b", "c">>)])),
    JsonText(PyInt(5)),
    PlainText(<<"a", "b", "c">>),
    PlainText(<<>>) }

ApiOutcomes ==
  {[kind |-> "raises"], [kind |-> "none"]}
    \cup {[kind |-> "text", output_text |-> r] : r \in ApiTexts}

\* The value get_recommendations returns for the filtered selection and
\* the outcome of the API call.
get_recommendations(selection, outcome) ==
  IF selection = <<>> THEN PyList(<<>>)
  ELSE LET top_products == Take(selection, PromptProducts)
       IN  CASE outcome.kind = "raises" -> ErrorEntry("API call failed")
             [] outcome.kind = "none" -> ErrorEntry("No response content received")
             [] OTHER -> parse_llm_response(outcome.output_text).returned

\* Most products of the engine's catalog.
MaxShelf == 3

\* Most recommendations a caller asks for.
MaxRecommendations == 3

\* The products on the engine's shelf: tagged, untagged and tagged
\* ["general"]; gel and tonic carry the same tags.
ShelfProducts ==
  { [name |-> "gel", concern_tags |-> <<"acne">>],
    [name |-> "tonic", brand |-> "moida", price |-> "12", concern_tags |-> <<"acne">>],
    [name |-> "milk", concern_tags |-> <<"acne", "dryness">>],
    [name |-> "lotion", concern_tags |-> <<"dryness", "acne">>],
    [name |-> "balm"],
    [name |-> "mist", concern_tags |-> <<"general">>] }

Shelves == UNION {[1..n -> ShelfProducts] : n \in 0..MaxShelf}

\* The user vectors of the selector's callers.
ShelfVectors ==
  { <<>>,
    [c \in {"acne"} |-> 80],
    [c \in {"acne"} |-> 10],
    [c \in {"acne", "dryness"} |-> 80],
    [c \in {"acne", "dryness"} |-> IF c = "acne" THEN 39 ELSE 40],
    [c \in {"pores"} |-> 80] }

\* The thresholds callers of filter_products_by_concerns pass.
Thresholds == {0, RecommendThreshold, DefaultThreshold, 100}

InitSelect ==
  /\ pc = "select"
  /\ raised = ""
  /\ IdleNormalize
  /\ IdleTag
  /\ IdleExtract
  /\ IdleScraper
  /\ products \in Shelves
  /\ processed = 0
  /\ product = <<>>
  /\ user_concerns \in ShelfVectors
  /\ score = 0
  /\ min_score_threshold = 0
  /\ scored_products = <<>>
  /\ num_recommendations = 0
  /\ response = <<>>
  /\ recommendations = <<>>
  /\ prompt = <<>>

\* scored_products = filter_products_by_concerns(user_concerns, min_score_threshold)
Filter ==
  /\ pc = "select"
  /\ \E threshold \in Thresholds :
       /\ min_score_threshold' = threshold
       /\ scored_products' = filter_products_by_concerns(products, user_concerns, threshold)
  /\ pc' = "filtered"
  /\ UNCHANGED <<prompt, scrVars, raised, normVars, tagVars, catVars, extVars, product, user_concerns,
                 score, num_recommendations, response, recommendations>>

\* recommendations = get_quick_recommendations(user_concerns, num_recommendations)
Quick ==
  /\ pc = "select"
  /\ \E n \in 0..MaxRecommendations :
       /\ num_recommendations' = n
       /\ recommendations' = PyList(get_quick_recommendations(products, user_concerns, n))
  /\ min_score_threshold' = DefaultThreshold
  /\ scored_products' = filter_products_by_concerns(products, user_concerns, DefaultThreshold)
  /\ pc' = "quick"
  /\ UNCHANGED <<prompt, scrVars, raised, normVars, tagVars, catVars, extVars, product, user_concerns,
                 score, response>>

\* recommendations = get_recommendations(user_concerns,
\*                     num_recommendations=num_recommendations)
Recommend ==
  /\ pc = "select"
  /\ \E n \in 0..MaxRecommendations : num_recommendations' = n
  /\ min_score_threshold' = RecommendThreshold
  /\ \E selection \in {filter_products_by_concerns(products, user_concerns, RecommendThreshold)} :
       /\ scored_products' = selection
       /\ IF selection = <<>>
          THEN /\ response' = response
               /\ recommendations' = get_recommendations(selection, [kind |-> "none"])
          ELSE \E outcome \in ApiOutcomes :
                 /\ response' = outcome
                 /\ recommendations' = get_recommendations(selection, outcome)
  /\ pc' = "recommended"
  /\ UNCHANGED <<prompt, scrVars, raised, normVars, tagVars, catVars, extVars, product, user_concerns, score>>

NextSelect == Filter \/ Quick \/ Recommend

SpecSelect == InitSelect /\ [][NextSelect]_vars

\* The number of positions of the sequence s that hold x.
CountIn(s, x) == Cardinality({i \in 1..Len(s) : s[i] = x})

\* The products of a list of (product, score) tuples, in order.
ProductsOf(tuples) == AsList([i \in 1..Len(tuples) |-> tuples[i][1]])

\* The score of catalog product p for the user vector of the state reaches
\* the threshold of the state.
ReachesThreshold(p) ==
  calculate_product_score(p, user_concerns) >= min_score_threshold * ScoreScale

\* C14: filter_products_by_concerns returns exactly the products whose score
\* is at least min_score_threshold, each paired with its score: no entry is
\* below the threshold and no product at or above it is missing.
C14_FilterKeepsExactlyThreshold ==
  pc = "filtered" =>
    /\ \A i \in 1..Len(scored_products) :
         /\ scored_products[i][2] = calculate_product_score(scored_products[i][1], user_concerns)
         /\ scored_products[i][2] >= min_score_threshold * ScoreScale
    /\ \A p \in Range(products) :
         CountIn(ProductsOf(scored_products), p) =
           IF ReachesThreshold(p) THEN CountIn(products, p) ELSE 0

\* A filtered catalog of three products: one exactly at a positive threshold
\* and kept, one below it and dropped.
C14_Witness ==
  /\ pc = "filtered"
  /\ min_score_threshold > 0
  /\ Len(products) = 3
  /\ \E i \in 1..Len(scored_products) :
       scored_products[i][2] = min_score_threshold * ScoreScale
  /\ \E k \in 1..Len(products) :
       /\ calculate_product_score(products[k], user_concerns) > 0
       /\ products[k] \notin Range(ProductsOf(scored_products))

\* The catalog products with the score x, in catalog order.
CatalogWithScore(x) ==
  LET Scores(p) == calculate_product_score(p, user_concerns) = x
  IN  SelectSeq(products, Scores)

\* The returned products with the score x, in the order returned.
ReturnedWithScore(x) ==
  LET Scores(tuple) == tuple[2] = x
  IN  ProductsOf(SelectSeq(scored_products, Scores))

\* C15: the list returned by filter_products_by_concerns is sorted by
\* non-increasing score, and products of equal score appear in their catalog
\* order.
C15_SortedDescendingStable ==
  pc = "filtered" =>
    /\ \A i, j \in 1..Len(scored_products) :
         i < j => scored_products[i][2] >= scored_products[j][2]
    /\ \A i \in 1..Len(scored_products) :
         ReturnedWithScore(scored_products[i][2]) = CatalogWithScore(scored_products[i][2])

\* A returned list where a later catalog product outranks an earlier one and
\* two different products tie, the tie in catalog order.
C15_Witness ==
  /\ pc = "filtered"
  /\ Len(scored_products) = 3
  /\ scored_products[1][1] = products[2]
  /\ scored_products[2][1] = products[3]
  /\ scored_products[3][1] = products[1]
  /\ scored_products[1][2] = scored_products[2][2]
  /\ scored_products[1][1] # scored_products[2][1]
  /\ scored_products[3][2] < scored_products[2][2]

\* C16: get_quick_recommendations returns at most num_recommendations
\* entries; they are the first num_recommendations entries of the filtered,
\* sorted selection, in the same order, and no product left out scores higher
\* than one returned.
C16_QuickIsTopOfSelection ==
  pc = "quick" =>
    /\ Len(recommendations.list) <= num_recommendations
    /\ Len(recommendations.list) = Min2(num_recommendations, Len(scored_products))
    /\ \A i \in 1..Len(recommendations.list) :
         /\ recommendations.list[i].product_name = scored_products[i][1].name
         /\ recommendations.list[i].score = Round(scored_products[i][2], 100)
    /\ \A i \in 1..Len(recommendations.list) :
         \A j \in (Len(recommendations.list) + 1)..Len(scored_products) :
           scored_products[j][2] <= scored_products[i][2]

\* A quick listing of two entries cut from a selection of three, the entry
\* left out scoring lower than both.
C16_Witness ==
  /\ pc = "quick"
  /\ num_recommendations = 2
  /\ Len(recommendations.list) = 2
  /\ Len(scored_products) = 3
  /\ scored_products[3][2] < scored_products[2][2]
  /\ recommendations.list[1].product_name # recommendations.list[2].product_name

\* The API call raised, or returned output parse_llm_response cannot decode.
CollaboratorFailed ==
  \/ response.kind = "raises"
  \/ response.kind = "text" /\ "json" \notin DOMAIN response.output_text

\* The local listing of a list of (product, score) tuples.
LocalListing(tuples) == PyList(AsList([i \in 1..Len(tuples) |-> QuickEntry(tuples[i])]))

\* C17: when the API call raises or returns output that cannot be parsed,
\* get_recommendations returns the locally scored, sorted product listing,
\* not an error entry or a placeholder built from the response text.
C17_FallsBackToLocalRanking ==
  (pc = "recommended" /\ scored_products # <<>> /\ CollaboratorFailed) =>
    \/ recommendations = LocalListing(scored_products)
    \/ recommendations = LocalListing(Take(scored_products, num_recommendations))
    \/ recommendations = PyList(get_quick_recommendations(products, user_concerns,
                                                          num_recommendations))

-----------------------------------------------------------------------------
(* extract_unique_ingredients.py: the extraction pass that writes the rank  *)
(* table, and load_ranked_ingredients, which reads it.                      *)

\* str.split(): the words between runs of whitespace.
RECURSIVE SplitWords(_)
SplitWords(s) ==
  LET start == FirstNonSpace(s, 1)
  IN  IF start > Len(s) THEN <<>>
      ELSE LET spaces == {i \in start..Len(s) : IsSpace(s[i])}
               stop == IF spaces = {} THEN Len(s) + 1 ELSE MinOf(spaces)
           IN  <<Slice(s, start, stop - 1)>> \o SplitWords(Slice(s, stop, Len(s)))

\* get_first_two_words(ingredient): the exception raised, "" if none, and
\* the value returned.  words[1] is read whenever there is a word.
get_first_two_words(s) ==
  LET words == SplitWords(Strip(s))
  IN  IF Len(words) >= 1
      THEN IF Len(words) >= 2
           THEN [raised |-> "", returned |-> Lower(words[1] \o <<" ">> \o words[2])]
           ELSE [raised |-> "IndexError"]
      ELSE [raised |-> "", returned |-> <<>>]

\* The loop over ingredient_list from token k on, with the two sets as they
\* stand: the exception raised, "" if none, and the sets at the end.
RECURSIVE TokenLoop(_, _, _, _)
TokenLoop(ingredient_list, k, unique, seen) ==
  IF k > Len(ingredient_list)
  THEN [raised |-> "", unique_ingredients |-> unique, first_two_words_seen |-> seen]
  ELSE LET token == ingredient_list[k]
       IN  IF Strip(token) = <<>> THEN TokenLoop(ingredient_list, k + 1, unique, seen)
           ELSE LET first_two_words == get_first_two_words(token)
                IN  IF first_two_words.raised # ""
                    THEN [raised |-> first_two_words.raised,
                          unique_ingredients |-> unique, first_two_words_seen |-> seen]
                    ELSE IF first_two_words.returned # <<>>
                            /\ first_two_words.returned \notin seen
                    THEN TokenLoop(ingredient_list, k + 1, unique \cup {Strip(token)},
                                   seen \cup {first_two_words.returned})
                    ELSE TokenLoop(ingredient_list, k + 1, unique, seen)

\* ingredient_list: the stripped pieces of the ingredient string.
IngredientList(raw) ==
  LET pieces_ == SplitComma(raw)
  IN  AsList([i \in 1..Len(pieces_) |-> Strip(pieces_[i])])

\* One iteration of the loop over data['products'].
ExtractFrom(p, unique, seen) ==
  LET raw == Get(p, "ingredients", <<>>)
  IN  IF raw # <<>> /\ Strip(raw) # <<>>
      THEN TokenLoop(IngredientList(raw), 1, unique, seen)
      ELSE [raised |-> "", unique_ingredients |-> unique, first_two_words_seen |-> seen]

\* The characters of the model's strings in the order of their code points.
CodePointOrder ==
  <<" ", "(", ")", ",", "-", ".", "0", "1", "2", "3", "4", "5", "6", "7", "8", "9", ":", "=", "A", "B", "C", "D", "E", "F", "G", "H", "I", "J", "K", "L", "M", "N", "O", "P", "Q", "R", "S", "T", "U", "V", "W", "X", "Y", "Z", "a", "b", "c", "d", "e", "f", "g", "h", "i", "j", "k", "l", "m", "n", "o", "p", "q", "r", "s", "t", "u", "v", "w", "x", "y", "z">>

Ord(c) == CHOOSE i \in 1..Len(CodePointOrder) : CodePointOrder[i] = c

\* a < b for two str.
RECURSIVE StrLess(_, _)
StrLess(a, b) ==
  IF b = <<>> THEN FALSE
  ELSE IF a = <<>> THEN TRUE
  ELSE IF a[1] # b[1] THEN Ord(a[1]) < Ord(b[1])
  ELSE StrLess(Tail(a), Tail(b))

\* sorted(list(S)) for a set of str.
RECURSIVE SortedStrings(_)
SortedStrings(S) ==
  IF S = {} THEN <<>>
  ELSE LET first == CHOOSE x \in S : \A y \in S \ {x} : StrLess(x, y)
       IN  <<first>> \o SortedStrings(S \ {first})

(* The extraction pass's specification: main() of extract_unique_ingredients *)
(* runs over a catalog, then the tagger's loader reads the file.            *)

ZincOxide == <<"Z", "i", "n", "c", " ", "O", "x", "i", "d", "e">>
AloeVera == <<"A", "l", "o", "e", " ", "V", "e", "r", "a">>
AloeVeraGel == <<"a", "l", "o", "e", " ", "v", "e", "r", "a", " ", "G", "e", "l">>
Water == <<"W", "a", "t", "e", "r">>

\* The products of the catalogs the extraction runs over.
ExtractProducts ==
  { [name |-> "serum"],
    [name |-> "paste", ingredients |-> ZincOxide],
    [name |-> "cream", ingredients |-> ZincOxide \o <<",", " ">> \o AloeVera],
    [name |-> "gel", ingredients |-> AloeVeraGel \o <<",", " ", ",">> \o ZincOxide],
    [name |-> "mist", ingredients |-> AloeVera \o <<",", " ">> \o Water] }

ExtractCatalogs == UNION {[1..n -> ExtractProducts] : n \in 0..MaxProducts}

InitExtract ==
  /\ pc = "extract"
  /\ raised = ""
  /\ IdleNormalize
  /\ IdleTag
  /\ IdleEngine
  /\ products \in ExtractCatalogs
  /\ processed = 0
  /\ unique_ingredients = {}
  /\ first_two_words_seen = {}
  /\ rank_file = <<>>
  /\ IdleScraper

\* One iteration of the loop over data['products']; an exception leaves
\* extract_unique_ingredients.
ExtractProduct ==
  /\ pc = "extract"
  /\ processed < Len(products)
  /\ \E step \in {ExtractFrom(products[processed + 1], unique_ingredients,
                              first_two_words_seen)} :
       /\ raised' = step.raised
       /\ unique_ingredients' = step.unique_ingredients
       /\ first_two_words_seen' = step.first_two_words_seen
       /\ pc' = IF step.raised = "" THEN "extract" ELSE "raised"
  /\ processed' = processed + 1
  /\ UNCHANGED <<prompt, scrVars, normVars, tagVars, engVars, products, rank_file>>

\* extract_unique_ingredients returns; main sorts the set and writes the file.
WriteFile ==
  /\ pc = "extract"
  /\ processed = Len(products)
  /\ rank_file' = FileLines(SortedStrings(unique_ingredients))
  /\ pc' = "written"
  /\ UNCHANGED <<prompt, scrVars, raised, normVars, tagVars, engVars, catVars, unique_ingredients,
                 first_two_words_seen>>

\* main's except Exception: the error is printed and no file is written.
Report ==
  /\ pc = "raised"
  /\ pc' = "reported"
  /\ UNCHANGED <<prompt, scrVars, raised, normVars, tagVars, engVars, catVars, extVars>>

\* ranked_ingredients = load_ranked_ingredients()
LoadTable ==
  /\ pc \in {"written", "reported"}
  /\ ranked_ingredients' = load_ranked_ingredients(rank_file)
  /\ pc' = "loaded"
  /\ UNCHANGED <<prompt, scrVars, raised, normVars, engVars, catVars, extVars, ingredients, tokens,
                 skincare_ingredients, match_events, concern_scores, matching_concerns>>

NextExtract == ExtractProduct \/ WriteFile \/ Report \/ LoadTable

SpecExtract == InitExtract /\ [][NextExtract]_vars

\* The non-empty ingredient tokens of product k, stripped, in order.
TokensOf(k) ==
  LET NonEmpty(t) == t # <<>>
  IN  SelectSeq(IngredientList(Get(products[k], "ingredients", <<>>)), NonEmpty)

\* The number of products whose ingredient list holds the ingredient.
Frequency(name) ==
  Cardinality({k \in 1..Len(products) : name \in Range(TokensOf(k))})

\* C19: the rank table written by the extraction pass and read by
\* load_ranked_ingredients is ordered by catalog frequency: an ingredient
\* that occurs in more products never has a larger index than one that occurs
\* in fewer.
C19_RankTableByFrequency ==
  (pc = "loaded" /\ raised = "") =>
    \A i, j \in 1..Len(ranked_ingredients) :
      i < j => Frequency(ranked_ingredients[i]) >= Frequency(ranked_ingredients[j])

\* The lower-cased first two words of a token, or its one word.
PrefixOf(token) ==
  LET words == SplitWords(token)
  IN  IF Len(words) >= 2 THEN Lower(words[1] \o <<" ">> \o words[2])
      ELSE IF Len(words) = 1 THEN Lower(words[1])
      ELSE <<>>

\* The tokens of the products from product k on, in catalog order.
RECURSIVE CatalogTokens(_)
CatalogTokens(k) ==
  IF k > Len(products) THEN <<>> ELSE TokensOf(k) \o CatalogTokens(k + 1)

\* The first token of the catalog with the prefix p.
FirstWithPrefix(p) ==
  LET all == CatalogTokens(1)
  IN  all[MinOf({i \in 1..Len(all) : PrefixOf(all[i]) = p})]

\* C20: extract_unique_ingredients returns, for every catalog, one-word
\* tokens included, a set in which no two entries share the lower-cased
\* first-two-word prefix, the entry kept for a prefix being the first token
\* with that prefix in catalog order; a one-word token's prefix is the word.
C20_OneEntryPerPrefix ==
  (pc \in {"written", "raised"}) =>
    /\ raised = ""
    /\ \A a, b \in unique_ingredients : PrefixOf(a) = PrefixOf(b) => a = b
    /\ unique_ingredients =
         {FirstWithPrefix(PrefixOf(t)) : t \in Range(CatalogTokens(1))}

-----------------------------------------------------------------------------
(* The loader's specification: a rank-table file is put together line by    *)
(* line and load_ranked_ingredients reads it.                               *)

\* Most lines of a rank-table file.
MaxLines == 3

\* The lines files are made of: the lines the extraction pass writes, and
\* lines somebody added by hand.
FileLineChoices ==
  { TotalHeader \o <<"2">>,
    [k \in 1..50 |-> "="],
    <<>>,
    <<" ", " ", "1", ".", " ", "Z", "i", "n", "c", " ", "O", "x", "i", "d", "e">>,
    <<" ", "1", "2", ".", " ", "A", "l", "o", "e", " ", "V", "e", "r", "a">>,
    <<"N", "o", "t", "e", ".", " ", "s", "e", "e", " ", "b", "e", "l", "o", "w">>,
    <<"U", "n", "r", "a", "n", "k", "e", "d">> }

InitLoad ==
  /\ pc = "file"
  /\ raised = ""
  /\ IdleNormalize
  /\ IdleTag
  /\ IdleCatalog
  /\ IdleEngine
  /\ IdleExtract
  /\ IdleScraper

\* One more line is written to the file.
AddLine ==
  /\ pc = "file"
  /\ Len(rank_file) < MaxLines
  /\ \E line \in FileLineChoices : rank_file' = Append(rank_file, line)
  /\ UNCHANGED <<prompt, scrVars, pc, raised, normVars, tagVars, catVars, engVars, unique_ingredients,
                 first_two_words_seen>>

\* ranked_ingredients = load_ranked_ingredients()
Load ==
  /\ pc = "file"
  /\ \E call \in {LoadCall(rank_file)} :
       /\ raised' = call.raised
       /\ ranked_ingredients' = call.returned
  /\ pc' = "table"
  /\ UNCHANGED <<prompt, scrVars, normVars, catVars, engVars, extVars, ingredients, tokens,
                 skincare_ingredients, match_events, concern_scores, matching_concerns>>

NextLoad == AddLine \/ Load

SpecLoad == InitLoad /\ [][NextLoad]_vars

\* The number of digits a line starts with.
RECURSIVE LeadingDigits(_)
LeadingDigits(line) ==
  IF line # <<>> /\ line[1] \in Range(DigitChars) THEN 1 + LeadingDigits(Tail(line)) ELSE 0

\* The line has the numbered form "<N>. <ingredient name>".
IsNumbered(line) ==
  LET l == Strip(line)
      n == LeadingDigits(l)
  IN  /\ n >= 1
      /\ Len(l) >= n + 3
      /\ l[n + 1] = "."
      /\ l[n + 2] = " "

\* The ingredient name of a numbered line.
NumberedName(line) ==
  LET l == Strip(line)
  IN  Strip(Slice(l, LeadingDigits(l) + 3, Len(l)))

\* The names of the numbered lines from line k on, in file order.
RECURSIVE NumberedNames(_, _)
NumberedNames(lines, k) ==
  IF k > Len(lines) THEN <<>>
  ELSE (IF IsNumbered(lines[k]) THEN <<NumberedName(lines[k])>> ELSE <<>>)
       \o NumberedNames(lines, k + 1)

\* C21: load_ranked_ingredients returns, in file order, exactly the names of
\* the lines of the form "<N>. <ingredient name>"; a header, separator,
\* blank or total-count line, or a line without a number that merely contains
\* ". ", adds no entry.
C21_LoadsNumberedLinesOnly ==
  pc = "table" => ranked_ingredients = NumberedNames(rank_file, 1)

-----------------------------------------------------------------------------
(* The pipeline's specification: a catalog is tagged and saved by           *)
(* add_concern_tags_to_products, and the engine, which loads the saved      *)
(* catalog, scores it and selects from it.                                  *)

\* The rank-table files of the pipeline's tagging runs.
PipelineFiles == {<<>>, FileLines(<<SalicylicAcid, Niacinamide>>)}

\* The user vectors of the pipeline's engine calls.
PipelineVectors ==
  { [c \in {"acne"} |-> 80],
    [c \in {"acne", "clogged pores", "pores"} |-> 40] }

InitPipeline ==
  /\ pc = "load"
  /\ raised = ""
  /\ IdleNormalize
  /\ IdleEngine
  /\ unique_ingredients = {}
  /\ first_two_words_seen = {}
  /\ rank_file \in PipelineFiles
  /\ IdleScraper
  /\ products \in Catalogs
  /\ processed = 0
  /\ ingredients = <<>>
  /\ tokens = 0
  /\ skincare_ingredients = RANKED_SKINCARE_INGREDIENTS
  /\ ranked_ingredients = <<>>
  /\ match_events = {}
  /\ concern_scores = <<>>
  /\ matching_concerns = <<>>

\* score = calculate_product_score(product, user_concerns) for a product of
\* the saved catalog.
EngineScore ==
  /\ pc = "saved"
  /\ \E k \in 1..Len(products), concerns \in PipelineVectors :
       /\ product' = products[k]
       /\ user_concerns' = concerns
       /\ score' = calculate_product_score(products[k], concerns)
  /\ pc' = "served"
  /\ UNCHANGED <<prompt, scrVars, raised, normVars, tagVars, catVars, extVars, min_score_threshold,
                 scored_products, num_recommendations, response, recommendations>>

\* scored_products = filter_products_by_concerns(user_concerns) over the saved
\* catalog.
EngineFilter ==
  /\ pc = "saved"
  /\ \E concerns \in PipelineVectors :
       /\ user_concerns' = concerns
       /\ scored_products' = filter_products_by_concerns(products, concerns, DefaultThreshold)
  /\ min_score_threshold' = DefaultThreshold
  /\ pc' = "served"
  /\ UNCHANGED <<prompt, scrVars, raised, normVars, tagVars, catVars, extVars, product, score,
                 num_recommendations, response, recommendations>>

\* recommendations = get_quick_recommendations(user_concerns,
\*                     num_recommendations) over the saved catalog.
EngineQuick ==
  /\ pc = "saved"
  /\ \E concerns \in PipelineVectors, n \in 1..MaxRecommendations :
       /\ user_concerns' = concerns
       /\ num_recommendations' = n
       /\ scored_products' = filter_products_by_concerns(products, concerns, DefaultThreshold)
       /\ recommendations' = PyList(get_quick_recommendations(products, concerns, n))
  /\ min_score_threshold' = DefaultThreshold
  /\ pc' = "served"
  /\ UNCHANGED <<prompt, scrVars, raised, normVars, tagVars, catVars, extVars, product, score, response>>

NextPipeline ==
  LoadRanked \/ ProcessProduct \/ Save \/ EngineScore \/ EngineFilter \/ EngineQuick

SpecPipeline == InitPipeline /\ [][NextPipeline]_vars

\* The fields of a product other than concern_tags.
OtherFields(p) == DOMAIN p \ {"concern_tags"}

\* C23: a step of tagging changes nothing of a product except its
\* concern_tags, keeps the number and order of the products and leaves the
\* taxonomy and the loaded rank table as they are; a step of scoring or
\* selection changes no field of any product.
C23_TaggingTouchesOnlyConcernTags ==
  [][ /\ Len(products') = Len(products)
      /\ \A k \in 1..Len(products) :
           /\ OtherFields(products'[k]) = OtherFields(products[k])
           /\ \A f \in OtherFields(products[k]) : products'[k][f] = products[k][f]
      /\ skincare_ingredients' = skincare_ingredients
      /\ pc # "load" => ranked_ingredients' = ranked_ingredients
      /\ pc = "saved" => products' = products ]_vars

\* The engine has selected from a saved catalog of two products, one with
\* ingredients and two or more concern tags, one without ingredients.
C23_Witness ==
  /\ pc = "served"
  /\ scored_products # <<>>
  /\ Len(products) = 2
  /\ \E j, k \in 1..2 :
       /\ "ingredients" \in DOMAIN products[j]
       /\ Len(products[j].concern_tags) >= 2
       /\ "ingredients" \notin DOMAIN products[k]
       /\ products[k].concern_tags = <<"general">>

-----------------------------------------------------------------------------
(* create_minimal_prompt: the product list get_recommendations sends to the *)
(* LLM, and the specification of the calls that build it.                   *)

\* The number of products create_minimal_prompt keeps.
ShortlistSize == 10

\* The characters of a name and of a brand it keeps.
NameWidth == 80
BrandWidth == 30

\* The concern tags and the ingredient tokens it keeps per product.
SummaryConcerns == 3
SummaryIngredients == 3

\* ", ".join(parts) for a list of str.
RECURSIVE JoinCommaSpace(_)
JoinCommaSpace(parts) ==
  IF parts = <<>> THEN <<>>
  ELSE IF Len(parts) = 1 THEN parts[1]
  ELSE parts[1] \o <<",", " ">> \o JoinCommaSpace(Tail(parts))

\* product_info of one (product, score) tuple.
ProductInfo(this_product) ==
  [ name |-> Take(this_product.name, NameWidth),
    concerns |-> Take(Get(this_product, "concern_tags", <<>>), SummaryConcerns),
    brand |-> Take(Get(this_product, "brand", <<>>), BrandWidth),
    price |-> Get(this_product, "price", <<>>),
    ingredients |->
      JoinCommaSpace(Take(SplitComma(Get(this_product, "ingredients", <<>>)),
                          SummaryIngredients)) ]

\* product_list without the cut to ShortlistSize products.
create_untrimmed_prompt(top_products) ==
  AsList([i \in 1..Len(top_products) |-> ProductInfo(top_products[i][1])])

\* The product_list create_minimal_prompt serialises into the prompt; the
\* rest of the prompt is fixed wording around it and around the user's
\* concerns, skin type and budget.
create_minimal_prompt(top_products) ==
  LET trimmed_products == Take(top_products, ShortlistSize)
  IN  AsList([i \in 1..Len(trimmed_products) |-> ProductInfo(trimmed_products[i][1])])

\* Most products of the catalog the prompt is built from.
MaxPromptShelf == 11

\* The catalog's products: a serum with four concern tags and five
\* ingredient tokens, a gel with one tag and two tokens, both tagged acne.
PromptSerum ==
  [ name |-> <<"s", "e", "r", "u", "m">>,
    brand |-> <<"m", "o", "i", "d", "a">>,
    price |-> <<"$", "1", "2">>,
    concern_tags |-> <<"dryness", "acne", "pores", "aging">>,
    ingredients |-> <<"a", "q", "u", "a", ",", " ", "z", "i", "n", "c", ",", "u", "r", "e", "a",
                      ",", " ", "g", "u", "m", ",", "o", "i", "l">> ]

PromptGel ==
  [ name |-> <<"g", "e", "l">>,
    concern_tags |-> <<"acne">>,
    ingredients |-> <<"a", "q", "u", "a", ",", " ", "z", "i", "n", "c">> ]

PromptShelfProducts == {PromptSerum, PromptGel}

PromptShelves == UNION {[1..n -> PromptShelfProducts] : n \in 0..MaxPromptShelf}

\* The user vectors: both products selected, the serum alone, neither.
PromptVectors ==
  { [c \in {"acne"} |-> 80],
    [c \in {"dryness"} |-> 80],
    [c \in {"wrinkles"} |-> 80] }

InitPrompt ==
  /\ pc = "select"
  /\ raised = ""
  /\ IdleNormalize
  /\ IdleTag
  /\ IdleExtract
  /\ IdleScraper
  /\ products \in PromptShelves
  /\ processed = 0
  /\ product = <<>>
  /\ user_concerns \in PromptVectors
  /\ score = 0
  /\ min_score_threshold = 0
  /\ scored_products = <<>>
  /\ num_recommendations = 0
  /\ response = <<>>
  /\ recommendations = <<>>
  /\ prompt = <<>>

\* get_recommendations up to the API call: the selection at threshold 5,
\* its first 50 entries, and the prompt made from them; an empty selection
\* returns before any prompt is made.
BuildPrompt ==
  /\ pc = "select"
  /\ min_score_threshold' = RecommendThreshold
  /\ \E selection \in {filter_products_by_concerns(products, user_concerns, RecommendThreshold)} :
       /\ scored_products' = selection
       /\ IF selection = <<>>
          THEN /\ prompt' = prompt
               /\ recommendations' = PyList(<<>>)
               /\ pc' = "recommended"
          ELSE /\ prompt' = create_minimal_prompt(Take(selection, PromptProducts))
               /\ recommendations' = recommendations
               /\ pc' = "prompted"
  /\ UNCHANGED <<raised, normVars, tagVars, catVars, extVars, scrVars, product, user_concerns,
                 score, num_recommendations, response>>

\* The API call returns or raises, and get_recommendations returns.
Answer ==
  /\ pc = "prompted"
  /\ \E outcome \in ApiOutcomes :
       /\ response' = outcome
       /\ recommendations' = get_recommendations(scored_products, outcome)
  /\ pc' = "recommended"
  /\ UNCHANGED <<raised, normVars, tagVars, catVars, extVars, scrVars, product, user_concerns,
                 score, min_score_threshold, scored_products, num_recommendations, prompt>>

NextPrompt == BuildPrompt \/ Answer

SpecPrompt == InitPrompt /\ [][NextPrompt]_vars

\* The smaller of two numbers.
Least(a, b) == IF a <= b THEN a ELSE b

\* The comma-separated tokens of a summary's ingredients are the first
\* tokens of the product's ingredients, the ", " of the join leaving one
\* space before every token but the first.
FirstTokensOf(summary, this_product) ==
  LET kept == SplitComma(summary.ingredients)
      all == SplitComma(Get(this_product, "ingredients", <<>>))
  IN  /\ Len(kept) = Least(3, Len(all))
      /\ \A k \in 1..Len(kept) :
           kept[k] = (IF k = 1 THEN <<>> ELSE <<" ">>) \o all[k]

-----------------------------------------------------------------------------
(* The tagger's list against the taxonomy it was called with.               *)

-----------------------------------------------------------------------------
(* The scorer under changes of its arguments.                               *)

\* The percentages a user's weight is raised to.
RaisedPercentages == Percentages \cup {100}

\* The list with the element at position j moved to position i, i < j; the
\* elements from i to j - 1 move one place back.
MovedEarlier(list, j, i) ==
  [k \in 1..Len(list) |->
     IF k < i \/ k > j THEN list[k] ELSE IF k = i THEN list[j] ELSE list[k - 1]]

\* The list with the elements at positions i and j exchanged.
Exchanged(list, i, j) ==
  [k \in 1..Len(list) |-> IF k = i THEN list[j] ELSE IF k = j THEN list[i] ELSE list[k]]

\* The tag at position k of the list is none of the user's concerns.
Unmatched(list, k) == list[k] \notin DOMAIN user_concerns

\* The positions (i, j), i < j, where the tag at j is a concern of the user
\* seen first at j: the matched tags of the product.
MatchedAt(list, j) ==
  /\ list[j] \in DOMAIN user_concerns
  /\ \A k \in 1..(j - 1) : list[k] # list[j]

\* C28: for non-negative user weights the score is non-negative; raising
\* one user percentage, the rest of the vector and the product fixed, never
\* lowers it; moving a matched tag of the product to an earlier position,
\* past unmatched tags or in exchange for one, so that the other matched
\* tags keep their positions, never lowers it either.
C28_ScoreNonNegativeAndMonotone ==
  pc = "scored" =>
    /\ score >= 0
    /\ \A c \in DOMAIN user_concerns :
         \A q \in RaisedPercentages :
           q >= user_concerns[c] =>
             calculate_product_score(product, [user_concerns EXCEPT ![c] = q]) >= score
    /\ \A tags \in {Get(product, "concern_tags", <<>>)} :
         \A j \in 1..Len(tags) :
           \A i \in 1..(j - 1) :
             /\ (MatchedAt(tags, j) /\ \A k \in i..(j - 1) : Unmatched(tags, k)) =>
                  calculate_product_score(
                    SetItem(product, "concern_tags", MovedEarlier(tags, j, i)),
                    user_concerns) >= score
             /\ (MatchedAt(tags, j) /\ Unmatched(tags, i)) =>
                  calculate_product_score(
                    SetItem(product, "concern_tags", Exchanged(tags, i, j)),
                    user_concerns) >= score

\* A scored product tagged dryness, pores, acne for a user with acne at 39
\* and pores at 40 and no dryness: acne can move past pores' neighbour, and
\* both percentages can be raised across a bonus threshold.
C28_Witness ==
  /\ pc = "scored"
  /\ Get(product, "concern_tags", <<>>) = <<"dryness", "pores", "acne">>
  /\ DOMAIN user_concerns = {"acne", "pores"}
  /\ user_concerns["acne"] = 39
  /\ user_concerns["pores"] = 40
  /\ score > 0

-----------------------------------------------------------------------------
(* The scraper (src/moida_final_scraper.py): make_request.                  *)

\* self.max_retries and self.delay_between_requests (seconds).
max_retries == 3
delay_between_requests == 3

\* The seconds make_request waits per attempt made when it is rate limited.
RateLimitWait == 15

\* The status codes a server answers with.
StatusCodes == {200, 429, 404, 500}

\* What self.session.get does: it returns a response with a status code or
\* raises a requests.exceptions.RequestException.
ServerOutcomes ==
  {[kind |-> "response", status_code |-> s] : s \in StatusCodes}
    \cup {[kind |-> "RequestException"]}

\* The URLs make_request is called with: a collection page, a product page
\* and a product's JSON.
RequestUrls ==
  { "https://moidaus.com/collections/skin-care",
    "https://moidaus.com/products/a",
    "https://moidaus.com/products/a.json" }

\* range(self.max_retries) with one value more.
AttemptRangeLonger == 0..max_retries

\* range(self.max_retries)
AttemptRange == 0..(max_retries - 1)

\* The seconds slept in the iteration whose get had the given outcome.
SleepAfter(this_attempt, outcome) ==
  IF outcome.kind = "RequestException"
  THEN IF this_attempt < max_retries - 1 THEN delay_between_requests ELSE 0
  ELSE IF outcome.status_code = 429 THEN (this_attempt + 1) * RateLimitWait ELSE 0

InitRequest ==
  /\ pc = "request"
  /\ raised = ""
  /\ IdleNormalize
  /\ IdleTag
  /\ IdleCatalog
  /\ IdleEngine
  /\ IdleExtract
  /\ IdleRun
  /\ url \in RequestUrls
  /\ attempt = 0
  /\ outcomes = <<>>
  /\ slept = 0
  /\ request_result = [kind |-> "unset"]

\* One iteration of the loop of make_request: the GET, and the return of a
\* response with status 200 or the wait before the next iteration.
Attempt ==
  /\ pc = "request"
  /\ attempt \in AttemptRange
  /\ \E outcome \in ServerOutcomes :
       /\ outcomes' = Append(outcomes, outcome)
       /\ IF outcome.kind = "response" /\ outcome.status_code = 200
          THEN /\ request_result' = outcome
               /\ pc' = "returned"
               /\ UNCHANGED <<attempt, slept>>
          ELSE /\ slept' = slept + SleepAfter(attempt, outcome)
               /\ attempt' = attempt + 1
               /\ UNCHANGED <<pc, request_result>>
  /\ UNCHANGED <<raised, normVars, tagVars, catVars, engVars, extVars, prompt, runVars, url>>

\* The loop has run out of attempts: make_request returns None.
ReturnNone ==
  /\ pc = "request"
  /\ attempt \notin AttemptRange
  /\ request_result' = [kind |-> "None"]
  /\ pc' = "returned"
  /\ UNCHANGED <<raised, normVars, tagVars, catVars, engVars, extVars, prompt, runVars, url,
                 attempt, outcomes, slept>>

NextRequest == Attempt \/ ReturnNone

SpecRequest == InitRequest /\ [][NextRequest]_vars

\* session.get has a timeout and every sleep ends, so a call that can take
\* a step takes it.
SpecRequestLive == SpecRequest /\ WF_vars(NextRequest)

\* The outcome is a response with status 200.
IsOk(outcome) == outcome.kind = "response" /\ outcome.status_code = 200

\* What holds of make_request at every moment: at most three attempts, none
\* after a response with status 200; on return the value is that response,
\* or None after three attempts without one.
RequestBounded ==
  /\ Len(outcomes) <= 3
  /\ \A k \in 1..(Len(outcomes) - 1) : ~IsOk(outcomes[k])
  /\ pc = "returned" =>
       IF \E k \in 1..Len(outcomes) : IsOk(outcomes[k])
       THEN request_result = outcomes[Len(outcomes)]
       ELSE Len(outcomes) = 3 /\ request_result = [kind |-> "None"]
  /\ pc = "request" => request_result = [kind |-> "unset"]

\* C29: make_request returns after at most max_retries (3) GET attempts
\* whatever the server answers: with the response of the first attempt
\* answered with status 200, no attempt being made after it, and with None
\* when every attempt ended in another status or a request exception.
C29_RequestTerminatesWithinRetries ==
  [](RequestBounded) /\ <>(pc = "returned")

\* A call that returned the response of its third attempt after a rate
\* limit and a request exception, having slept 15 and 3 seconds.
C29_Witness ==
  /\ pc = "returned"
  /\ Len(outcomes) = 3
  /\ outcomes[1] = [kind |-> "response", status_code |-> 429]
  /\ outcomes[2] = [kind |-> "RequestException"]
  /\ IsOk(outcomes[3])
  /\ request_result = outcomes[3]
  /\ slept = 18

-----------------------------------------------------------------------------
(* The scraper's runs: load_progress, discovery, scrape_batched and         *)
(* save_progress over one site and one progress file.                       *)
(*                                                                          *)
(* A URL is modelled by the parts urlparse splits it into: scheme, netloc,  *)
(* the segments of its path, and its query; a relative reference has an     *)
(* empty scheme and netloc.                                                 *)

\* self.batch_size and self.max_total_products.
batch_size == 10
max_total_products == 60

\* self.base_url
base_url == [scheme |-> "https", netloc |-> "moidaus.com", path |-> <<>>, query |-> ""]

\* The empty str.
EmptyUrl == [scheme |-> "", netloc |-> "", path |-> <<>>, query |-> ""]

\* url.startswith('http')
StartsWithHttp(u) == u.scheme \in {"http", "https"}

\* urljoin(base, u) for a reference u with an absolute path.
urljoin(base, u) ==
  IF StartsWithHttp(u) THEN u
  ELSE [scheme |-> base.scheme, netloc |-> base.netloc, path |-> u.path, query |-> u.query]

\* scheme://netloc/path of the absolute form of the URL.
canonicalize_product_url(u) ==
  IF u = EmptyUrl THEN EmptyUrl
  ELSE LET parsed == IF ~StartsWithHttp(u) THEN urljoin(base_url, u) ELSE u
       IN  [scheme |-> parsed.scheme, netloc |-> parsed.netloc, path |-> parsed.path,
            query |-> ""]

\* urlparse(canonical_absolute).path, as a str.
CanonicalPath(u) == [scheme |-> "", netloc |-> "", path |-> u.path, query |-> ""]

\* '/products/' in href
IsProductLink(href) ==
  \E k \in 1..(Len(href.path) - 1) : href.path[k] = "products"

\* The hrefs of the site's pages: a product's relative link, the link of one
\* of its variants, its absolute link, and a link to a collection.
Relative(handle) ==
  [scheme |-> "", netloc |-> "", path |-> <<"products", handle>>, query |-> ""]

Variant(handle) ==
  [scheme |-> "", netloc |-> "", path |-> <<"products", handle>>, query |-> "variant=1"]

Absolute(handle) ==
  [scheme |-> "https", netloc |-> "moidaus.com", path |-> <<"products", handle>>,
   query |-> ""]

CollectionLink ==
  [scheme |-> "", netloc |-> "", path |-> <<"collections", "mask">>, query |-> ""]

\* The products whose pages and JSON show no image.
Imageless == {"p3", "p9"}

\* What extract_image_from_product_page and the images of the product JSON
\* give for a product page of the site.
ImageOf(product_url) ==
  IF product_url.path[Len(product_url.path)] \in Imageless THEN ""
  ELSE "https://cdn.shopify.com/image.jpg"

\* A site whose two collections list disjoint products, and a site whose
\* collections share two products; a container is the href of its first
\* link.
SiteDisjoint ==
  << [url |-> "https://moidaus.com/collections/skin-care",
      containers |-> << Relative("p1"), Variant("p1"), Relative("p2"), CollectionLink,
                        Relative("p3"), Absolute("p4"), Relative("p5"), Relative("p6") >>],
     [url |-> "https://moidaus.com/collections/serum",
      containers |-> << Relative("p7"), Relative("p8"), Variant("p9"), Relative("p10"),
                        Relative("p11"), Relative("p12") >>] >>

SiteShared ==
  << [url |-> "https://moidaus.com/collections/skin-care",
      containers |-> << Relative("p1"), Variant("p1"), Relative("p2"), CollectionLink,
                        Relative("p3"), Absolute("p4"), Relative("p5"), Relative("p6") >>],
     [url |-> "https://moidaus.com/collections/serum",
      containers |-> << Relative("p5"), Variant("p6"), Relative("p7"), Relative("p8"),
                        Relative("p9"), Relative("p10"), Relative("p11"), Relative("p12") >>] >>

Sites == {SiteDisjoint, SiteShared}

\* Most runs of the scraper.
MaxRuns == 3

\* load_progress: the scraped_urls of the progress file, the empty set when
\* there is none.
load_progress(file) == IF file.exists THEN file.scraped_urls ELSE {}

\* The test that skips a link in discovery.
AlreadyScraped(canonical_href, seen) == canonical_href \in seen

\* The loop over the containers of a collection page, from container k:
\* the product links whose canonical URL is not in scraped_urls, in page
\* order.
RECURSIVE ContainerLoop(_, _, _)
ContainerLoop(containers, k, seen) ==
  IF k > Len(containers) THEN <<>>
  ELSE LET href == containers[k]
           canonical_href == canonicalize_product_url(href)
       IN  (IF href = EmptyUrl \/ ~IsProductLink(href) \/ AlreadyScraped(canonical_href, seen)
            THEN <<>>
            ELSE << [url |-> canonical_href, image_url |-> ""] >>)
             \o ContainerLoop(containers, k + 1, seen)

\* unique_products: the first entry of every URL, in order.
RECURSIVE UniqueProducts(_, _, _)
UniqueProducts(found, k, seen_urls) ==
  IF k > Len(found) THEN <<>>
  ELSE IF found[k].url \in seen_urls THEN UniqueProducts(found, k + 1, seen_urls)
  ELSE <<found[k]>> \o UniqueProducts(found, k + 1, seen_urls \cup {found[k].url})

\* discover_products_from_collection_page for the page's containers; an
\* unanswered request gives no products.
discover_products_from_collection_page(page, answered, seen) ==
  IF ~answered THEN <<>>
  ELSE UniqueProducts(ContainerLoop(page.containers, 1, seen), 1, {})

InitScraper ==
  /\ pc = "idle"
  /\ raised = ""
  /\ IdleNormalize
  /\ IdleTag
  /\ IdleCatalog
  /\ IdleEngine
  /\ IdleExtract
  /\ IdleRequest
  /\ progress_file = [exists |-> FALSE]
  /\ collection_pages \in Sites
  /\ collection_urls = <<>>
  /\ scraped_urls = {}
  /\ all_products = <<>>
  /\ batch_products = <<>>
  /\ scraped_products = <<>>
  /\ visits = <<>>
  /\ runs = 0

\* A run starts: the constructor loads the progress file, scrape_batched
\* loads the collection URLs.
StartRun ==
  /\ pc = "idle"
  /\ runs < MaxRuns
  /\ runs' = runs + 1
  /\ scraped_urls' = load_progress(progress_file)
  /\ collection_urls' = collection_pages
  /\ all_products' = <<>>
  /\ batch_products' = <<>>
  /\ scraped_products' = <<>>
  /\ pc' = "discover"
  /\ UNCHANGED <<raised, normVars, tagVars, catVars, engVars, extVars, prompt, reqVars,
                 progress_file, collection_pages, visits>>

\* One iteration of the loop over collection_urls.
Discover ==
  /\ pc = "discover"
  /\ collection_urls # <<>>
  /\ \E answered \in BOOLEAN :
       \E discovered \in {discover_products_from_collection_page(
                            Head(collection_urls), answered, scraped_urls)} :
         /\ all_products' = all_products \o discovered
         /\ collection_urls' =
              IF discovered # <<>> /\ Len(all_products \o discovered) >= max_total_products
              THEN <<>>
              ELSE Tail(collection_urls)
  /\ UNCHANGED <<raised, normVars, tagVars, catVars, engVars, extVars, prompt, reqVars, pc,
                 progress_file, collection_pages, scraped_urls, batch_products,
                 scraped_products, visits, runs>>

\* The loop has ended: scrape_batched returns [] when nothing was found and
\* takes the first batch_size products otherwise.
SelectBatch ==
  /\ pc = "discover"
  /\ collection_urls = <<>>
  /\ IF all_products = <<>>
     THEN /\ pc' = "idle"
          /\ batch_products' = batch_products
     ELSE /\ pc' = "scrape"
          /\ batch_products' = Take(all_products, Least(batch_size, max_total_products))
  /\ UNCHANGED <<raised, normVars, tagVars, catVars, engVars, extVars, prompt, reqVars,
                 progress_file, collection_pages, collection_urls, scraped_urls,
                 all_products, scraped_products, visits, runs>>

\* One iteration of the loop over batch_products: the product's page is
\* fetched, its URL recorded, and the product kept when it has an image.
ScrapeProduct ==
  /\ pc = "scrape"
  /\ batch_products # <<>>
  /\ \E product_url \in {canonicalize_product_url(Head(batch_products).url)} :
       \E image_url \in {ImageOf(product_url)} :
         /\ visits' = Append(visits, [run |-> runs, product_url |-> product_url,
                                      recorded |-> product_url \in scraped_urls])
         /\ scraped_urls' = scraped_urls \cup {product_url, CanonicalPath(product_url)}
         /\ scraped_products' =
              IF image_url # ""
              THEN Append(scraped_products, [product_url |-> product_url, image_url |-> image_url])
              ELSE scraped_products
  /\ batch_products' = Tail(batch_products)
  /\ UNCHANGED <<raised, normVars, tagVars, catVars, engVars, extVars, prompt, reqVars, pc,
                 progress_file, collection_pages, collection_urls, all_products, runs>>

\* The batch is done: save_progress writes scraped_urls and scrape_batched
\* returns scraped_products.
SaveProgress ==
  /\ pc = "scrape"
  /\ batch_products = <<>>
  /\ progress_file' = [exists |-> TRUE, scraped_urls |-> scraped_urls]
  /\ pc' = "idle"
  /\ UNCHANGED <<raised, normVars, tagVars, catVars, engVars, extVars, prompt, reqVars,
                 collection_pages, collection_urls, scraped_urls, all_products,
                 batch_products, scraped_products, visits, runs>>

NextScraper == StartRun \/ Discover \/ SelectBatch \/ ScrapeProduct \/ SaveProgress

SpecScraper == InitScraper /\ [][NextScraper]_vars

\* The mechanisms of the runs: discovery holds no product whose canonical
\* URL is in scraped_urls; scraped_urls keeps what the progress file held
\* and every URL visited; no run visits more than 10 products; every
\* product returned has an image_url.
ScraperMechanisms ==
  /\ pc = "discover" =>
       \A k \in 1..Len(all_products) : all_products[k].url \notin scraped_urls
  /\ (progress_file.exists /\ pc # "idle") => progress_file.scraped_urls \subseteq scraped_urls
  /\ (runs > 0) => \A k \in 1..Len(visits) : visits[k].product_url \in scraped_urls
  /\ \A r \in 1..runs : Cardinality({k \in 1..Len(visits) : visits[k].run = r}) <= 10
  /\ \A k \in 1..Len(scraped_products) : scraped_products[k].image_url # ""

\* No product page is visited twice, in one run or in two.
VisitedOnce ==
  \A i, j \in 1..Len(visits) : visits[i].product_url = visits[j].product_url => i = j

\* C30: over any sequence of runs sharing the progress file, a product whose
\* canonical URL is in scraped_urls is not scraped again: no product page is
\* visited while its URL is recorded and none is visited twice; discovery
\* skips recorded links, scraped_urls only grows, a run scrapes at most
\* batch_size products and every product returned has an image_url.
C30_RecordedNeverScrapedAgain ==
  /\ \A k \in 1..Len(visits) : ~visits[k].recorded
  /\ VisitedOnce
  /\ ScraperMechanisms

====
